---------------------------- MODULE Spec2Model ----------------------------
(***************************************************************************)
(* A model of Port2Monad's pipeline server (src/server/http.ts), its       *)
(* repository ingestion (src/ingestion/repository.ts and the GitHub        *)
(* client) and the dependency graph of its Solidity analyzer               *)
(* (src/analysis/solidityAnalyzer.ts).                                     *)
(*                                                                         *)
(* The specifications of the module:                                      *)
(*   Spec      the five request handlers running concurrently over the     *)
(*             three process-wide caches, one step per stretch of code     *)
(*             between two awaits;                                         *)
(*   SpecKey   the cache key the ingest handler writes and the key the     *)
(*             other handlers derive, for every repository URL;            *)
(*   SpecGraph buildDependencyGraph and identifyEntryPoints over every     *)
(*             bounded list of contracts;                                  *)
(*   SpecAnalyze the loop of analyzeSolidity over the Solidity files of a  *)
(*             repository, some of which fail to fetch or parse;           *)
(*   SpecPlan  planMigration for every answer of the recommendation        *)
(*             generator, a failed call included;                          *)
(*   SpecTransform transformRepository: the files of the plan one after    *)
(*             the other, the cross-file consistency check, the summary;   *)
(*   SpecExtract the contracts parseFile extracts from the syntax tree of  *)
(*             one file;                                                   *)
(*   SpecValidate the validation report validateCode computes from an      *)
(*             analysis and a transformation report.                       *)
(***************************************************************************)
EXTENDS Integers, Sequences, FiniteSets, TLC

VARIABLES
    \* ---- Spec: the server
    repoCache,      \* http.ts:30  Map<cacheKey, RepositoryTree>
    analysisCache,  \* http.ts:38  Map<cacheKey, AnalysisCache>
    planCache,      \* http.ts:45  Map<cacheKey, PlanCache>
    now,            \* Date.now(), in milliseconds
    ticks,          \* number of clock advances so far
    req,            \* the requests: handler, body, position, locals, response
    \* ---- SpecKey: key derivation
    kUrl,           \* the repoUrl of the request
    kPc,            \* "url" | "ingested" | "rejected" | "derived"
    kIngestKey,     \* the key handleIngestRequest wrote
    kHandlerKey,    \* the key the analyze/plan/transform handlers derive
    \* ---- SpecGraph: dependency graph
    gContracts,     \* the contracts parsed from the repository's files
    gGraph,         \* the DependencyGraph built from them
    gEntryPoints,   \* entryPointContracts
    gPc,            \* "parsed" | "analyzed"
    \* ---- SpecAnalyze: the loop of analyzeSolidity over the Solidity files
    aFiles,         \* solidityFiles, each with what parseFile does for it
    aIdx,           \* the file the loop is at
    aContracts,     \* contracts
    aParseErrors,   \* parseErrors
    aResult,        \* the SolidityAnalysisResult returned
    aPc,            \* "parsing" | "done"
    \* ---- SpecExtract: parseFile on the syntax tree of one file
    xRoot,          \* tree.rootNode: the import directives and the declarations
    xContracts,     \* the contracts parseFile returns
    xPc,            \* "parsed" | "extracted"
    \* ---- SpecValidate: validateCode
    vAnalysis,      \* analysisResult: the contracts and what the checks read of them
    vIssues,        \* transformationReport.crossFileConsistency.issues
    vReport,        \* the ValidationReport returned
    vPc,            \* "validating" | "validated"
    \* ---- SpecTransform: transformRepository
    tPlan,          \* migrationPlan.recommendations
    tAnalysis,      \* analysisResult.contracts
    tQueue,         \* the entries of recommendationsByFile still to transform
    tTransformedFiles, \* this.transformedFiles, in insertion order
    tAnswers,       \* per file transformFile returned for: the action of the answer
    tReport,        \* report
    tPc,            \* "transforming" | "returned" | "threw"
    \* ---- SpecPlan: planMigration and its call of the recommendation generator
    pAnalysis,      \* the analysis the plan is made from (its counts)
    pResponse,      \* what client.messages.create does: rejects, or its content
    pPlan,          \* the MigrationPlan returned
    pPc             \* "calling" | "returned" | "threw"

serverVars == <<repoCache, analysisCache, planCache, now, ticks, req>>
keyVars    == <<kUrl, kPc, kIngestKey, kHandlerKey>>
graphVars  == <<gContracts, gGraph, gEntryPoints, gPc>>
analyzeVars == <<aFiles, aIdx, aContracts, aParseErrors, aResult, aPc>>
planVars   == <<pAnalysis, pResponse, pPlan, pPc>>
transformVars == <<tPlan, tAnalysis, tQueue, tTransformedFiles, tAnswers, tReport, tPc>>
extractVars == <<xRoot, xContracts, xPc>>
validateVars == <<vAnalysis, vIssues, vReport, vPc>>
stageVars  == <<analyzeVars, planVars, transformVars, extractVars, validateVars>>
vars       == <<serverVars, keyVars, graphVars, stageVars>>

(***************************************************************************)
(* Strings.  A string is a sequence of tokens; every token is a piece of   *)
(* text without a '/' except the token "/" itself, so the regular          *)
(* expressions of the code, which only look at "github.com/", at '/' and   *)
(* at a trailing ".git", read a token sequence exactly as they read its    *)
(* concatenation.                                                          *)
(***************************************************************************)
Host   == "github.com"
Slash  == "/"
DotGit == ".git"
Scheme == "https:"

\* The longest run of non-'/' tokens of s starting at position i:  [^/]+
RECURSIVE Run(_, _)
Run(s, i) ==
    IF i > Len(s) \/ s[i] = Slash THEN <<>> ELSE <<s[i]>> \o Run(s, i + 1)

\* /github\.com\/([^/]+)\/([^/]+)/ tried at position i: the two groups, or <<>>.
GroupsAt(s, i) ==
    IF i + 1 <= Len(s) /\ s[i] = Host /\ s[i + 1] = Slash
    THEN LET g1 == Run(s, i + 2)
             j  == i + 2 + Len(g1)
         IN  IF Len(g1) >= 1 /\ j <= Len(s) /\ s[j] = Slash /\ Len(Run(s, j + 1)) >= 1
             THEN <<g1, Run(s, j + 1)>>
             ELSE <<>>
    ELSE <<>>

\* The position after the second group of a match at i.
EndAt(s, i) ==
    LET g == GroupsAt(s, i) IN i + 2 + Len(g[1]) + 1 + Len(g[2])

\* String.prototype.match: the leftmost position where the pattern matches.
RECURSIVE FirstMatch(_, _, _)
FirstMatch(s, i, anchored) ==
    IF i > Len(s) THEN <<>>
    ELSE IF GroupsAt(s, i) # <<>>
            /\ (anchored =>
                   \/ EndAt(s, i) = Len(s) + 1
                   \/ (EndAt(s, i) = Len(s) /\ s[Len(s)] = Slash))
         THEN GroupsAt(s, i)
         ELSE FirstMatch(s, i + 1, anchored)

\* body.repoUrl.match(/github\.com\/([^/]+)\/([^/]+)/)
urlParts(repoUrl) == FirstMatch(repoUrl, 1, FALSE)

\* urlParts[2].replace(/\.git$/, '')
StripGit(name) ==
    IF Len(name) >= 1 /\ name[Len(name)] = DotGit
    THEN SubSeq(name, 1, Len(name) - 1)
    ELSE name

\* `${owner}/${name}`
FullName(owner, name) == owner \o <<Slash>> \o name

\* `${urlParts[1]}/${urlParts[2].replace(/\.git$/, '')}`
UrlCacheKey(repoUrl) ==
    LET p == urlParts(repoUrl) IN FullName(p[1], StripGit(p[2]))

\* parseRepositoryUrl: /github\.com\/([^/]+)\/([^/]+)(?:\/)?$/, <<>> when it throws.
parseRepositoryUrl(repoUrl) == FirstMatch(repoUrl, 1, TRUE)

(***************************************************************************)
(* GitHub.  getRepository asks api.github.com for /repos/{owner}/{repo}    *)
(* and returns the owner.login and name of the answer.  GitHub resolves    *)
(* the two path segments without regard to case and answers with the       *)
(* repository's own spelling.  Whether it resolves a name that carries a   *)
(* ".git" suffix is left open: both outcomes are modelled.                 *)
(***************************************************************************)
Lower(tok) == IF tok = "O" THEN "o" ELSE IF tok = "R" THEN "r" ELSE tok

LowerAll(s) == [i \in 1..Len(s) |-> Lower(s[i])]

\* The repositories GitHub holds, in their own spelling.
GitHubRepos == { [owner |-> <<"o">>, name |-> <<"r">>] }

\* The metadata getRepository(owner, repo) can return; empty when it throws.
getRepository(owner, repo) ==
    { m \in GitHubRepos :
        /\ LowerAll(m.owner) = LowerAll(owner)
        /\ \/ LowerAll(m.name) = LowerAll(repo)
           \/ LowerAll(m.name) = LowerAll(StripGit(repo)) }

\* The metadata of the trees ingestRepository(repoUrl) can resolve with.
ingestRepository(repoUrl) ==
    LET p == parseRepositoryUrl(repoUrl)
    IN  IF p = <<>> THEN {} ELSE getRepository(p[1], p[2])

(***************************************************************************)
(* SpecKey: for one repoUrl, the key handleIngestRequest writes            *)
(* (`${tree.metadata.owner}/${tree.metadata.name}`) and the key the other  *)
(* handlers derive from the same URL.                                      *)
(***************************************************************************)
MaxUrlLen == 6

UrlAlphabet == {Host, Slash, "o", "O", "r", DotGit}

UrlsUpTo(n) == UNION { [1..k -> UrlAlphabet] : k \in 0..n }

NoKey == <<>>

KeyInit ==
    /\ kUrl \in UrlsUpTo(MaxUrlLen)
    /\ kPc = "url"
    /\ kIngestKey = NoKey
    /\ kHandlerKey = NoKey

\* handleIngestRequest: ingest, then cache under the metadata's owner/name; the
\* ingestion may throw (a URL parseRepositoryUrl rejects, GitHub not answering).
KeyIngest ==
    /\ kPc = "url"
    /\ kUrl # <<>>
    /\ \/ \E m \in ingestRepository(kUrl) :
            /\ kIngestKey' = FullName(m.owner, m.name)
            /\ kPc' = "ingested"
       \/ /\ kIngestKey' = NoKey
          /\ kPc' = "rejected"
    /\ UNCHANGED <<kUrl, kHandlerKey, serverVars, graphVars, stageVars>>

\* A later analyze, plan, transform or explain-validate request with the same URL.
KeyDerive ==
    /\ kPc = "ingested"
    /\ urlParts(kUrl) # <<>>
    /\ kHandlerKey' = UrlCacheKey(kUrl)
    /\ kPc' = "derived"
    /\ UNCHANGED <<kUrl, kIngestKey, serverVars, graphVars, stageVars>>

KeyNext == KeyIngest \/ KeyDerive

(***************************************************************************)
(* SpecGraph: the dependency graph and the entry points of a list of       *)
(* contracts.  A contract is [name, type, imports, inherits]; the fields   *)
(* the graph never reads (functions, state variables, file path) are left  *)
(* out.                                                                    *)
(***************************************************************************)
MaxContracts == 2

ContractTypes == {"contract", "abstract", "interface", "library"}

ContractNames == {"Token", "Sale"}

\* Import lists of a file: extractImports keeps every directive, repeated or not.
ImportLists == { <<>>, <<"./IERC20.sol">>, <<"./IERC20.sol", "./IERC20.sol">> }

\* Inheritance lists: extractContract keeps each parent once.
InheritLists == { <<>>, <<"Token">>, <<"Sale">>, <<"Ownable">> }

Contracts ==
    [name : ContractNames, type : ContractTypes,
     imports : ImportLists, inherits : InheritLists]

ContractLists == UNION { [1..k -> Contracts] : k \in 0..MaxContracts }

Includes(list, x) == \E i \in 1..Len(list) : list[i] = x

\* A variant of PushNode without the includes test.
PushNodeAlways(nodes, x) == Append(nodes, x)

\* if (!nodes.includes(x)) nodes.push(x)
PushNode(nodes, x) == IF Includes(nodes, x) THEN nodes ELSE Append(nodes, x)

Edge(from, to, type) == [from |-> from, to |-> to, type |-> type]

\* edges.push({from, to, type})
PushEdge(edges, e) == Append(edges, e)

\* One of the two inner loops: a node and an edge per target, targets[i..].
RECURSIVE AddTargets(_, _, _, _, _)
AddTargets(g, from, targets, type, i) ==
    IF i > Len(targets) THEN g
    ELSE AddTargets([nodes |-> PushNode(g.nodes, targets[i]),
                     edges |-> PushEdge(g.edges, Edge(from, targets[i], type))],
                    from, targets, type, i + 1)

\* The body of the outer loop for one contract.
AddContract(g, c) ==
    LET g1 == [g EXCEPT !.nodes = PushNode(g.nodes, c.name)]
        g2 == AddTargets(g1, c.name, c.imports, "import", 1)
    IN  AddTargets(g2, c.name, c.inherits, "inheritance", 1)

RECURSIVE BuildFrom(_, _, _)
BuildFrom(g, contracts, i) ==
    IF i > Len(contracts) THEN g
    ELSE BuildFrom(AddContract(g, contracts[i]), contracts, i + 1)

buildDependencyGraph(contracts) ==
    BuildFrom([nodes |-> <<>>, edges |-> <<>>], contracts, 1)

\* A variant of isOnlyInherited that ignores whether the contract itself inherits.
isOnlyInheritedIgnoringParents(contractName, graph) ==
    \E i \in 1..Len(graph.edges) :
        graph.edges[i].to = contractName /\ graph.edges[i].type = "inheritance"

isOnlyInherited(contractName, graph) ==
    LET isInherited ==
            \E i \in 1..Len(graph.edges) :
                graph.edges[i].to = contractName /\ graph.edges[i].type = "inheritance"
        isInheriting ==
            \E i \in 1..Len(graph.edges) :
                graph.edges[i].from = contractName /\ graph.edges[i].type = "inheritance"
    IN  isInherited /\ ~isInheriting

\* contracts.filter(...).map((c) => c.name), from position i on
RECURSIVE DeployableNames(_, _, _)
DeployableNames(contracts, graph, i) ==
    IF i > Len(contracts) THEN <<>>
    ELSE (IF contracts[i].type = "contract"
             /\ ~isOnlyInherited(contracts[i].name, graph)
          THEN <<contracts[i].name>>
          ELSE <<>>) \o DeployableNames(contracts, graph, i + 1)

identifyEntryPoints(contracts, graph) == DeployableNames(contracts, graph, 1)

EmptyGraph == [nodes |-> <<>>, edges |-> <<>>]

GraphInit ==
    /\ gContracts \in ContractLists
    /\ gGraph = EmptyGraph
    /\ gEntryPoints = <<>>
    /\ gPc = "parsed"

\* analyzeSolidity, after the files are parsed: the graph, then the entry points.
AnalyzeGraph ==
    /\ gPc = "parsed"
    /\ gGraph' = buildDependencyGraph(gContracts)
    /\ gEntryPoints' = identifyEntryPoints(gContracts, buildDependencyGraph(gContracts))
    /\ gPc' = "analyzed"
    /\ UNCHANGED <<gContracts, serverVars, keyVars, stageVars>>

GraphNext == AnalyzeGraph

(***************************************************************************)
(* Spec: the HTTP server.  Express runs each handler on one thread: a      *)
(* handler runs without interruption from one await to the next, and       *)
(* other requests run while it awaits.  Every action below is one such     *)
(* stretch of a handler: its arrival up to the first await (or its         *)
(* response), or the continuation after an awaited call resolved or        *)
(* threw, up to the next await (or the response).                          *)
(***************************************************************************)
MaxReqs == 2
MaxTicks == 2

Reqs == 1..MaxReqs

CACHE_TTL_MS == 30 * 60 * 1000

\* The clock advances by a millisecond or by the TTL: ages 0, 1, TTL, TTL + 1, ...
TickSteps == {1, CACHE_TTL_MS}

UrlCanon == <<Scheme, Slash, Slash, Host, Slash, "o", Slash, "r">>
UrlCase  == <<Scheme, Slash, Slash, Host, Slash, "O", Slash, "r", DotGit>>
UrlBad   == <<"o", Slash, "r">>
UrlDeep  == <<Scheme, Slash, Slash, Host, Slash, "o", Slash, "r", Slash, "issues">>
IdCanon  == <<"o", Slash, "r">>
Absent   == <<>>

\* The request bodies: the URL of o/r as GitHub spells it, the same repository's
\* URL with the owner in capitals and a .git suffix, a repoId alone, a URL that
\* names no GitHub repository, the URL of a page below the repository (which
\* parseRepositoryUrl refuses and the handlers' own pattern accepts), and a
\* body without either field.
Bodies ==
    { [repoUrl |-> UrlCanon, repoId |-> Absent],
      [repoUrl |-> UrlCase,  repoId |-> Absent],
      [repoUrl |-> Absent,   repoId |-> IdCanon],
      [repoUrl |-> UrlBad,   repoId |-> Absent],
      [repoUrl |-> UrlDeep,  repoId |-> Absent],
      [repoUrl |-> Absent,   repoId |-> Absent] }

Keys ==
    { UrlCacheKey(b.repoUrl) : b \in { x \in Bodies : urlParts(x.repoUrl) # <<>> } }
    \cup { b.repoId : b \in { x \in Bodies : x.repoId # Absent } }
    \cup { FullName(m.owner, m.name) : m \in GitHubRepos }

Computes == {"ingestRepository", "analyzeSolidityRepository", "planRepositoryMigration"}

NoMeta     == [owner |-> <<>>, name |-> <<>>]
NoTree     == [by |-> 0, metadata |-> NoMeta, fetchedAt |-> 0]
NoAnalysis == [by |-> 0, tree |-> 0, repoMetadata |-> NoMeta, timestamp |-> 0]
NoPlan     == [by |-> 0, analysis |-> 0, timestamp |-> 0]

\* Map.has / a defined Map.get: the entry was written by some request.
Has(entry) == entry.by # 0

\* Date.now() - timestamp > CACHE_TTL_MS
Expired(timestamp) == now - timestamp > CACHE_TTL_MS

\* A request that has not arrived.  Besides the handler's locals and its
\* response a request records what it did: how often it invoked each compute
\* function (calls), which awaited call threw (failed), whether nothing was
\* cached under its key when it arrived (cold) and whether it wrote a cache
\* (wrote).
Idle ==
    [h |-> "none", body |-> [repoUrl |-> Absent, repoId |-> Absent],
     pc |-> "idle", cacheKey |-> NoKey, url |-> Absent,
     tree |-> NoTree, analysis |-> NoAnalysis, plan |-> NoPlan,
     status |-> 0, error |-> "",
     calls |-> [c \in Computes |-> 0], failed |-> "none",
     cold |-> FALSE, wrote |-> FALSE]

\* The artifacts a computation of request q yields when it resolves now.
NewTree(r, m) == [by |-> r, metadata |-> m, fetchedAt |-> now]

NewAnalysis(r, tree) ==
    [by |-> r, tree |-> tree.by, repoMetadata |-> tree.metadata, timestamp |-> now]

NewPlan(r, analysis) == [by |-> r, analysis |-> analysis.by, timestamp |-> now]

\* res.status(code).json({success: false, error}) / res.json(response); return
Respond(q, status, error) ==
    [q EXCEPT !.pc = "done", !.status = status, !.error = error]

\* await f(...): the handler is suspended in a call of f.
Await(q, f) ==
    [q EXCEPT !.pc = f,
              !.calls = IF f \in Computes THEN [@ EXCEPT ![f] = @ + 1] ELSE @]

\* catch (error) { res.status(500).json(...) } after the awaited call threw.
Catch(q) == [Respond(q, 500, "exception") EXCEPT !.failed = q.pc]

\* No entry of any stage is cached under key k.
Cold(k) == ~Has(repoCache[k]) /\ ~Has(analysisCache[k]) /\ ~Has(planCache[k])

\* The request r arrives; requests are numbered in their order of arrival.
Arrives(r) ==
    /\ req[r].pc = "idle"
    /\ \A s \in Reqs : s < r => req[s].pc # "idle"

Arrived(h, b) == [Idle EXCEPT !.h = h, !.body = b]

\* let cacheKey ...: the key of a plan, transform or explain-validate request,
\* NoKey when the URL is not one of GitHub's.                 (http.ts:260-275)
ResolveKey(b) ==
    IF b.repoId # Absent THEN b.repoId
    ELSE IF urlParts(b.repoUrl) = <<>> THEN NoKey
    ELSE UrlCacheKey(b.repoUrl)

ServerInit ==
    /\ repoCache = [k \in Keys |-> NoTree]
    /\ analysisCache = [k \in Keys |-> NoAnalysis]
    /\ planCache = [k \in Keys |-> NoPlan]
    /\ now = 0
    /\ ticks = 0
    /\ req = [r \in Reqs |-> Idle]

\* Time passes between two steps of the server.
Tick ==
    /\ ticks < MaxTicks
    /\ \E d \in TickSteps : now' = now + d
    /\ ticks' = ticks + 1
    /\ UNCHANGED <<repoCache, analysisCache, planCache, req, keyVars, graphVars, stageVars>>

\* The cache of the stage a compute function fills.
CacheOf(f) ==
    IF f = "ingestRepository" THEN repoCache
    ELSE IF f = "analyzeSolidityRepository" THEN analysisCache
    ELSE planCache

\* A variant of Throws that leaves an entry of the failed computation behind.
ThrowsLeavingEntry(r) ==
    /\ req' = [req EXCEPT ![r] = Catch(req[r])]
    /\ IF req[r].pc = "analyzeSolidityRepository" /\ req[r].cacheKey # NoKey
       THEN analysisCache' = [analysisCache EXCEPT ![req[r].cacheKey] =
                                NewAnalysis(r, req[r].tree)]
       ELSE UNCHANGED analysisCache
    /\ UNCHANGED <<repoCache, planCache, now, ticks, keyVars, graphVars, stageVars>>

\* An awaited call of request r throws: the handler's catch answers 500.
Throws(r) ==
    /\ req' = [req EXCEPT ![r] = Catch(req[r])]
    /\ UNCHANGED <<repoCache, analysisCache, planCache, now, ticks, keyVars, graphVars, stageVars>>

(***************************** POST /ingest ********************************)
IngestStart(r, b) ==
    /\ Arrives(r)
    /\ req' = [req EXCEPT ![r] =
                 IF b.repoUrl = Absent
                 THEN Respond(Arrived("ingest", b), 400, "missing")
                 ELSE Await([Arrived("ingest", b) EXCEPT !.url = b.repoUrl],
                            "ingestRepository")]
    /\ UNCHANGED <<repoCache, analysisCache, planCache, now, ticks, keyVars, graphVars, stageVars>>

IngestAfterIngest(r) ==
    /\ req[r].h = "ingest"
    /\ req[r].pc = "ingestRepository"
    /\ \/ \E m \in ingestRepository(req[r].url) :
            LET tree == NewTree(r, m)
                cacheKey == FullName(tree.metadata.owner, tree.metadata.name)
            IN  /\ repoCache' = [repoCache EXCEPT ![cacheKey] = tree]
                /\ req' = [req EXCEPT ![r] =
                             Respond([req[r] EXCEPT !.tree = tree,
                                                    !.cacheKey = cacheKey,
                                                    !.wrote = TRUE], 200, "")]
                /\ UNCHANGED <<analysisCache, planCache, now, ticks, keyVars, graphVars, stageVars>>
       \/ Throws(r)

(************************* POST /analyze/solidity **************************)
AnalyzeStart(r, b) ==
    /\ Arrives(r)
    /\ req' = [req EXCEPT ![r] =
         IF b.repoUrl = Absent
         THEN Respond(Arrived("analyze", b), 400, "missing")
         ELSE IF urlParts(b.repoUrl) = <<>>
         THEN Respond(Arrived("analyze", b), 400, "invalid")
         ELSE LET cacheKey == UrlCacheKey(b.repoUrl)
                  q == [Arrived("analyze", b) EXCEPT !.cacheKey = cacheKey,
                                                     !.url = b.repoUrl,
                                                     !.cold = Cold(cacheKey)]
              IN  IF Has(repoCache[cacheKey])
                  THEN Await([q EXCEPT !.tree = repoCache[cacheKey]],
                             "analyzeSolidityRepository")
                  ELSE Await(q, "ingestRepository")]
    /\ UNCHANGED <<repoCache, analysisCache, planCache, now, ticks, keyVars, graphVars, stageVars>>

AnalyzeAfterIngest(r) ==
    /\ req[r].h = "analyze"
    /\ req[r].pc = "ingestRepository"
    /\ \/ \E m \in ingestRepository(req[r].url) :
            LET tree == NewTree(r, m)
            IN  /\ repoCache' = [repoCache EXCEPT ![req[r].cacheKey] = tree]
                /\ req' = [req EXCEPT ![r] =
                             Await([req[r] EXCEPT !.tree = tree, !.wrote = TRUE],
                                   "analyzeSolidityRepository")]
                /\ UNCHANGED <<analysisCache, planCache, now, ticks, keyVars, graphVars, stageVars>>
       \/ Throws(r)

\* The result is answered and not cached.
AnalyzeAfterAnalysis(r) ==
    /\ req[r].h = "analyze"
    /\ req[r].pc = "analyzeSolidityRepository"
    /\ \/ /\ req' = [req EXCEPT ![r] =
                       Respond([req[r] EXCEPT !.analysis = NewAnalysis(r, req[r].tree)],
                               200, "")]
          /\ UNCHANGED <<repoCache, analysisCache, planCache, now, ticks, keyVars, graphVars, stageVars>>
       \/ Throws(r)

(************************** POST /plan/migration ***************************)
\* A variant of PlanTreeMiss that fetches https://github.com/<repoId> when the
\* body has no repoUrl, as the transform handler does.
PlanTreeMissFetching(q, b) ==
    Await([q EXCEPT !.url = IF b.repoUrl # Absent THEN b.repoUrl
                             ELSE <<Scheme, Slash, Slash, Host, Slash>> \o q.cacheKey],
          "ingestRepository")

\* Neither the analysis nor the tree is cached: ingest body.repoUrl, or answer
\* 400 when the body has none.                               (http.ts:298-309)
PlanTreeMiss(q, b) ==
    IF b.repoUrl = Absent
    THEN Respond(q, 400, "not cached")
    ELSE Await(q, "ingestRepository")

\* The cached analysis is taken whatever its age; the plan is always computed.
PlanStart(r, b) ==
    /\ Arrives(r)
    /\ req' = [req EXCEPT ![r] =
         IF b.repoUrl = Absent /\ b.repoId = Absent
         THEN Respond(Arrived("plan", b), 400, "missing")
         ELSE IF ResolveKey(b) = NoKey
         THEN Respond(Arrived("plan", b), 400, "invalid")
         ELSE LET cacheKey == ResolveKey(b)
                  cached == analysisCache[cacheKey]
                  q == [Arrived("plan", b) EXCEPT !.cacheKey = cacheKey,
                                                  !.url = b.repoUrl,
                                                  !.cold = Cold(cacheKey)]
              IN  IF ~Has(cached)
                  THEN IF Has(repoCache[cacheKey])
                       THEN Await([q EXCEPT !.tree = repoCache[cacheKey]],
                                  "analyzeSolidityRepository")
                       ELSE PlanTreeMiss(q, b)
                  ELSE IF cached.repoMetadata = NoMeta /\ ~Has(repoCache[cacheKey])
                       THEN Respond([q EXCEPT !.analysis = cached], 500, "no metadata")
                       ELSE Await([q EXCEPT !.analysis = cached],
                                  "planRepositoryMigration")]
    /\ UNCHANGED <<repoCache, analysisCache, planCache, now, ticks, keyVars, graphVars, stageVars>>

PlanAfterIngest(r) ==
    /\ req[r].h = "plan"
    /\ req[r].pc = "ingestRepository"
    /\ \/ \E m \in ingestRepository(req[r].url) :
            LET tree == NewTree(r, m)
            IN  /\ repoCache' = [repoCache EXCEPT ![req[r].cacheKey] = tree]
                /\ req' = [req EXCEPT ![r] =
                             Await([req[r] EXCEPT !.tree = tree, !.wrote = TRUE],
                                   "analyzeSolidityRepository")]
                /\ UNCHANGED <<analysisCache, planCache, now, ticks, keyVars, graphVars, stageVars>>
       \/ Throws(r)

PlanAfterAnalysis(r) ==
    /\ req[r].h = "plan"
    /\ req[r].pc = "analyzeSolidityRepository"
    /\ \/ LET analysis == NewAnalysis(r, req[r].tree)
          IN  /\ analysisCache' = [analysisCache EXCEPT ![req[r].cacheKey] = analysis]
              /\ req' = [req EXCEPT ![r] =
                           Await([req[r] EXCEPT !.analysis = analysis, !.wrote = TRUE],
                                 "planRepositoryMigration")]
              /\ UNCHANGED <<repoCache, planCache, now, ticks, keyVars, graphVars, stageVars>>
       \/ Throws(r)

PlanAfterPlan(r) ==
    /\ req[r].h = "plan"
    /\ req[r].pc = "planRepositoryMigration"
    /\ \/ LET plan == NewPlan(r, req[r].analysis)
          IN  /\ planCache' = [planCache EXCEPT ![req[r].cacheKey] = plan]
              /\ req' = [req EXCEPT ![r] =
                           Respond([req[r] EXCEPT !.plan = plan, !.wrote = TRUE],
                                   200, "")]
              /\ UNCHANGED <<repoCache, analysisCache, now, ticks, keyVars, graphVars, stageVars>>
       \/ Throws(r)

(***************** POST /transform and POST /explain-validate **************)
\* The two handlers resolve the key, the tree, the analysis and the plan with
\* the same code; h is "transform" or "explain".
Downstream == {"transform", "explain"}

\* After the plan is in hand: await transformRepository(...).
WithPlan(q, plan) == Await([q EXCEPT !.plan = plan], "transformRepository")

\* After the analysis is in hand: the cached plan unless absent or expired.
WithAnalysis(q, analysis, plans) ==
    LET planCache_ == plans[q.cacheKey]
        q1 == [q EXCEPT !.analysis = analysis]
    IN  IF ~Has(planCache_) \/ Expired(planCache_.timestamp)
        THEN Await(q1, "planRepositoryMigration")
        ELSE WithPlan(q1, planCache_)

\* After the tree is in hand: the cached analysis unless absent or expired.
WithTree(q, tree, analyses, plans) ==
    LET analysisCache_ == analyses[q.cacheKey]
        q1 == [q EXCEPT !.tree = tree]
    IN  IF ~Has(analysisCache_) \/ Expired(analysisCache_.timestamp)
        THEN Await(q1, "analyzeSolidityRepository")
        ELSE WithAnalysis(q1, analysisCache_, plans)

\* body.repoUrl || `https://github.com/${cacheKey}`
FetchUrl(b, cacheKey) ==
    IF b.repoUrl # Absent THEN b.repoUrl
    ELSE <<Scheme, Slash, Slash, Host, Slash>> \o cacheKey

DownstreamStart(r, h, b) ==
    /\ Arrives(r)
    /\ req' = [req EXCEPT ![r] =
         IF b.repoUrl = Absent /\ b.repoId = Absent
         THEN Respond(Arrived(h, b), 400, "missing")
         ELSE IF ResolveKey(b) = NoKey
         THEN Respond(Arrived(h, b), 400, "invalid")
         ELSE LET cacheKey == ResolveKey(b)
                  q == [Arrived(h, b) EXCEPT !.cacheKey = cacheKey,
                                             !.cold = Cold(cacheKey)]
              IN  IF ~Has(repoCache[cacheKey])
                  THEN Await([q EXCEPT !.url = FetchUrl(b, cacheKey)],
                             "ingestRepository")
                  ELSE WithTree(q, repoCache[cacheKey], analysisCache, planCache)]
    /\ UNCHANGED <<repoCache, analysisCache, planCache, now, ticks, keyVars, graphVars, stageVars>>

DownstreamAfterIngest(r) ==
    /\ req[r].h \in Downstream
    /\ req[r].pc = "ingestRepository"
    /\ \/ \E m \in ingestRepository(req[r].url) :
            LET tree == NewTree(r, m)
            IN  /\ repoCache' = [repoCache EXCEPT ![req[r].cacheKey] = tree]
                /\ req' = [req EXCEPT ![r] =
                             WithTree([req[r] EXCEPT !.wrote = TRUE], tree,
                                      analysisCache, planCache)]
                /\ UNCHANGED <<analysisCache, planCache, now, ticks, keyVars, graphVars, stageVars>>
       \/ Throws(r)

DownstreamAfterAnalysis(r) ==
    /\ req[r].h \in Downstream
    /\ req[r].pc = "analyzeSolidityRepository"
    /\ \/ LET analysis == NewAnalysis(r, req[r].tree)
          IN  /\ analysisCache' = [analysisCache EXCEPT ![req[r].cacheKey] = analysis]
              /\ req' = [req EXCEPT ![r] =
                           WithAnalysis([req[r] EXCEPT !.wrote = TRUE], analysis,
                                        planCache)]
              /\ UNCHANGED <<repoCache, planCache, now, ticks, keyVars, graphVars, stageVars>>
       \/ Throws(r)

DownstreamAfterPlan(r) ==
    /\ req[r].h \in Downstream
    /\ req[r].pc = "planRepositoryMigration"
    /\ \/ LET plan == NewPlan(r, req[r].analysis)
          IN  /\ planCache' = [planCache EXCEPT ![req[r].cacheKey] = plan]
              /\ req' = [req EXCEPT ![r] = WithPlan([req[r] EXCEPT !.wrote = TRUE], plan)]
              /\ UNCHANGED <<repoCache, analysisCache, now, ticks, keyVars, graphVars, stageVars>>
       \/ Throws(r)

\* The report is answered; nothing is cached.
TransformAfterTransform(r) ==
    /\ req[r].h = "transform"
    /\ req[r].pc = "transformRepository"
    /\ \/ /\ req' = [req EXCEPT ![r] = Respond(req[r], 200, "")]
          /\ UNCHANGED <<repoCache, analysisCache, planCache, now, ticks, keyVars, graphVars, stageVars>>
       \/ Throws(r)

ExplainValidateAfterTransform(r) ==
    /\ req[r].h = "explain"
    /\ req[r].pc = "transformRepository"
    /\ \/ /\ req' = [req EXCEPT ![r] =
                       Await(req[r], "explainAndValidateTransformation")]
          /\ UNCHANGED <<repoCache, analysisCache, planCache, now, ticks, keyVars, graphVars, stageVars>>
       \/ Throws(r)

ExplainValidateAfterExplain(r) ==
    /\ req[r].h = "explain"
    /\ req[r].pc = "explainAndValidateTransformation"
    /\ \/ /\ req' = [req EXCEPT ![r] = Respond(req[r], 200, "")]
          /\ UNCHANGED <<repoCache, analysisCache, planCache, now, ticks, keyVars, graphVars, stageVars>>
       \/ Throws(r)

ServerNext ==
    \/ Tick
    \/ \E r \in Reqs, b \in Bodies :
          \/ IngestStart(r, b)
          \/ AnalyzeStart(r, b)
          \/ PlanStart(r, b)
          \/ \E h \in Downstream : DownstreamStart(r, h, b)
    \/ \E r \in Reqs :
          \/ IngestAfterIngest(r)
          \/ AnalyzeAfterIngest(r)
          \/ AnalyzeAfterAnalysis(r)
          \/ PlanAfterIngest(r)
          \/ PlanAfterAnalysis(r)
          \/ PlanAfterPlan(r)
          \/ DownstreamAfterIngest(r)
          \/ DownstreamAfterAnalysis(r)
          \/ DownstreamAfterPlan(r)
          \/ TransformAfterTransform(r)
          \/ ExplainValidateAfterTransform(r)
          \/ ExplainValidateAfterExplain(r)

(***************************************************************************)
(* SpecAnalyze: analyzeSolidity.  The loop awaits parseFile for one file   *)
(* after the other; parseFile returns the file's contracts or throws (the  *)
(* fetch failed, or the parser gave no root node).  After the loop the     *)
(* graph, the entry points and the stats are computed and the result is    *)
(* returned.                                                               *)
(***************************************************************************)
MaxFiles == 2

MaxFileContracts == 1

\* file.path of the i-th Solidity file of the tree.
FilePath(i) ==
    IF i = 1 THEN "contracts/Token.sol"
    ELSE IF i = 2 THEN "contracts/Sale.sol"
    ELSE "contracts/Lib.sol"

\* error.message of what parseFile throws.
ParseMessages == {"Failed to parse AST", "Failed to fetch file"}

\* The contracts parseFile can extract from the file at path.
FileContracts(path) ==
    [name : ContractNames, type : {"contract", "interface"},
     imports : {<<>>}, inherits : {<<>>, <<"Token">>}, filePath : {path}]

\* What parseFile does for the file at path: it throws, or returns contracts.
ParseOutcomes(path) ==
    { [threw |-> TRUE, message |-> m, contracts |-> <<>>] : m \in ParseMessages }
    \cup { [threw |-> FALSE, message |-> "", contracts |-> cs] :
             cs \in UNION { [1..k -> FileContracts(path)] : k \in 0..MaxFileContracts } }

\* contracts.filter(pred).length
RECURSIVE CountType(_, _)
CountType(contracts, type) ==
    IF contracts = <<>> THEN 0
    ELSE (IF Head(contracts).type = type THEN 1 ELSE 0) + CountType(Tail(contracts), type)

NoStats ==
    [totalContracts |-> 0, abstractContracts |-> 0, interfaces |-> 0,
     libraries |-> 0, parseErrors |-> 0]

NoResult ==
    [contracts |-> <<>>, dependencyGraph |-> EmptyGraph,
     entryPointContracts |-> <<>>, stats |-> NoStats, parseErrors |-> <<>>]

AnalyzeIdle ==
    /\ aFiles = <<>>
    /\ aIdx = 1
    /\ aContracts = <<>>
    /\ aParseErrors = <<>>
    /\ aResult = NoResult
    /\ aPc = "parsing"

AnalyzeInit ==
    /\ \E n \in 0..MaxFiles :
         aFiles \in { fs \in [1..n -> UNION { ParseOutcomes(FilePath(i)) : i \in 1..n }] :
                        \A i \in 1..n : fs[i] \in ParseOutcomes(FilePath(i)) }
    /\ aIdx = 1
    /\ aContracts = <<>>
    /\ aParseErrors = <<>>
    /\ aResult = NoResult
    /\ aPc = "parsing"

\* const fileContracts = await this.parseFile(file); contracts.push(...fileContracts)
ParseFileReturns ==
    /\ aPc = "parsing"
    /\ aIdx <= Len(aFiles)
    /\ ~aFiles[aIdx].threw
    /\ aContracts' = aContracts \o aFiles[aIdx].contracts
    /\ aIdx' = aIdx + 1
    /\ UNCHANGED <<aFiles, aParseErrors, aResult, aPc>>
    /\ UNCHANGED <<serverVars, keyVars, graphVars, planVars, transformVars, extractVars, validateVars>>

\* A variant of ParseFileThrows in which the catch records nothing.
ParseFileThrowsUnrecorded ==
    /\ aPc = "parsing"
    /\ aIdx <= Len(aFiles)
    /\ aFiles[aIdx].threw
    /\ aIdx' = aIdx + 1
    /\ UNCHANGED <<aFiles, aContracts, aParseErrors, aResult, aPc>>
    /\ UNCHANGED <<serverVars, keyVars, graphVars, planVars, transformVars, extractVars, validateVars>>

\* catch (error) { parseErrors.push({ filePath: file.path, error: errorMsg }) }
ParseFileThrows ==
    /\ aPc = "parsing"
    /\ aIdx <= Len(aFiles)
    /\ aFiles[aIdx].threw
    /\ aParseErrors' = Append(aParseErrors,
                              [filePath |-> FilePath(aIdx), error |-> aFiles[aIdx].message])
    /\ aIdx' = aIdx + 1
    /\ UNCHANGED <<aFiles, aContracts, aResult, aPc>>
    /\ UNCHANGED <<serverVars, keyVars, graphVars, planVars, transformVars, extractVars, validateVars>>

\* After the loop: the graph, the entry points, the stats, and the result.
AnalyzeReturns ==
    /\ aPc = "parsing"
    /\ aIdx > Len(aFiles)
    /\ LET dependencyGraph == buildDependencyGraph(aContracts)
       IN  aResult' =
             [contracts |-> aContracts,
              dependencyGraph |-> dependencyGraph,
              entryPointContracts |-> identifyEntryPoints(aContracts, dependencyGraph),
              stats |-> [totalContracts |-> Len(aContracts),
                         abstractContracts |-> CountType(aContracts, "abstract"),
                         interfaces |-> CountType(aContracts, "interface"),
                         libraries |-> CountType(aContracts, "library"),
                         parseErrors |-> Len(aParseErrors)],
              parseErrors |-> aParseErrors]
    /\ aPc' = "done"
    /\ UNCHANGED <<aFiles, aIdx, aContracts, aParseErrors>>
    /\ UNCHANGED <<serverVars, keyVars, graphVars, planVars, transformVars, extractVars, validateVars>>

AnalyzeNext == ParseFileReturns \/ ParseFileThrows \/ AnalyzeReturns

(***************************************************************************)
(* SpecPlan: planMigration.  generateRecommendations awaits the language   *)
(* model; the call rejects (network, timeout) or resolves with a content   *)
(* block, of which only a text block is accepted.  The text is a sequence  *)
(* of tokens: '[', ']', ',', the JSON text of a recommendation object, or  *)
(* prose.  An object's text may itself contain brackets; the pattern       *)
(* /\[[\s\S]*\]/ and JSON.parse read the token sequence as they read the   *)
(* text as long as the outermost brackets are tokens.                      *)
(***************************************************************************)
MaxTextLen == 4

LBr   == "["
RBr   == "]"
Comma == ","
Prose == "Here are my recommendations"
RecHigh == "{\"filePath\":\"contracts/Token.sol\",\"confidenceLevel\":\"high\"}"
RecLow  == "{\"filePath\":\"contracts/Sale.sol\",\"confidenceLevel\":\"low\"}"

TextTokens == {LBr, RBr, Comma, Prose, RecHigh, RecLow}

Texts == UNION { [1..k -> TextTokens] : k \in 0..MaxTextLen }

\* The value JSON.parse gives for an element of the array.
ObjectOf(tok) ==
    IF tok = RecHigh
    THEN [filePath |-> "contracts/Token.sol", contractName |-> "Token",
          changeCategory |-> "gas-optimization", confidenceLevel |-> "high"]
    ELSE [filePath |-> "contracts/Sale.sol", contractName |-> "Sale",
          changeCategory |-> "security-consideration", confidenceLevel |-> "low"]

\* An element that is itself an array: it has none of a recommendation's fields.
NestedArray ==
    [filePath |-> "undefined", contractName |-> "undefined",
     changeCategory |-> "undefined", confidenceLevel |-> "undefined"]

SyntaxError == [ok |-> FALSE, next |-> 0, values |-> <<>>]

\* JSON.parse of an array: JsonArray reads the array that starts at s[i] = '[',
\* JsonElems the elements and the closing bracket from position i on.  The
\* answer holds the position after the array and its elements.
RECURSIVE JsonArray(_, _), JsonElems(_, _)
JsonElems(s, i) ==
    IF i > Len(s) THEN SyntaxError
    ELSE LET v == IF s[i] \in {RecHigh, RecLow}
                  THEN [ok |-> TRUE, next |-> i + 1, values |-> <<ObjectOf(s[i])>>]
                  ELSE IF s[i] = LBr
                  THEN [JsonArray(s, i) EXCEPT !.values = <<NestedArray>>]
                  ELSE SyntaxError
         IN  IF ~v.ok \/ v.next > Len(s) THEN SyntaxError
             ELSE IF s[v.next] = RBr THEN [v EXCEPT !.next = v.next + 1]
             ELSE IF s[v.next] = Comma
             THEN LET rest == JsonElems(s, v.next + 1)
                  IN  IF rest.ok
                      THEN [rest EXCEPT !.values = v.values \o rest.values]
                      ELSE SyntaxError
             ELSE SyntaxError

JsonArray(s, i) ==
    IF i + 1 <= Len(s) /\ s[i + 1] = RBr
    THEN [ok |-> TRUE, next |-> i + 2, values |-> <<>>]
    ELSE JsonElems(s, i + 1)

\* JSON.parse(text) for a text that starts with '[': the whole text is one array.
JSONparse(text) ==
    IF text # <<>> /\ text[1] = LBr /\ JsonArray(text, 1).ok
       /\ JsonArray(text, 1).next = Len(text) + 1
    THEN JsonArray(text, 1)
    ELSE SyntaxError

\* content.text.match(/\[[\s\S]*\]/): from the first '[' to the last ']' after
\* it; <<>> when there is no match.
jsonMatch(text) ==
    LET opens  == { i \in 1..Len(text) : text[i] = LBr }
        closes == { j \in 1..Len(text) : text[j] = RBr }
    IN  IF opens = {} THEN <<>>
        ELSE LET i == CHOOSE x \in opens : \A y \in opens : x <= y
                 after == { j \in closes : j > i }
             IN  IF after = {} THEN <<>>
                 ELSE SubSeq(text, i, CHOOSE x \in after : \A y \in after : y <= x)

\* What the call of the language model does.
Responses ==
    { [kind |-> "rejects", text |-> <<>>], [kind |-> "tool_use", text |-> <<>>] }
    \cup { [kind |-> "text", text |-> t] : t \in Texts }

\* analysisResult: contracts.length (= stats.totalContracts) and parseErrors.length.
AnalysisInputs == { [contracts |-> n, parseErrors |-> e] : n \in {0, 2}, e \in {0, 1} }

NoPlanResult ==
    [recommendations |-> <<>>,
     summary |-> [totalFilesAnalyzed |-> 0, totalContractsAnalyzed |-> 0,
                  totalRecommendations |-> 0, highConfidenceCount |-> 0,
                  mediumConfidenceCount |-> 0, lowConfidenceCount |-> 0]]

PlanIdle ==
    /\ pAnalysis = [contracts |-> 0, parseErrors |-> 0]
    /\ pResponse = [kind |-> "rejects", text |-> <<>>]
    /\ pPlan = NoPlanResult
    /\ pPc = "calling"

PlanInit ==
    /\ pAnalysis \in AnalysisInputs
    /\ pResponse \in Responses
    /\ pPlan = NoPlanResult
    /\ pPc = "calling"

\* A variant of FallbackRecommendations: no recommendation at all.
FallbackRecommendationsNone == <<>>

\* The catch of generateRecommendations: one recommendation to review the answer.
FallbackRecommendations ==
    << [filePath |-> "general", contractName |-> "General",
        changeCategory |-> "architecture", confidenceLevel |-> "low"] >>

\* generateRecommendations once the call resolved with a text block.
generateRecommendations(text) ==
    IF jsonMatch(text) = <<>> THEN FallbackRecommendations
    ELSE IF ~JSONparse(jsonMatch(text)).ok THEN FallbackRecommendations
    ELSE JSONparse(jsonMatch(text)).values

\* recommendations.filter((r) => r.confidenceLevel === level).length
RECURSIVE CountLevel(_, _)
CountLevel(recommendations, level) ==
    IF recommendations = <<>> THEN 0
    ELSE (IF Head(recommendations).confidenceLevel = level THEN 1 ELSE 0)
         + CountLevel(Tail(recommendations), level)

\* The call rejected, or resolved with a block that is not text: the error
\* leaves generateRecommendations, and planMigration logs it and throws it on.
PlanMigrationThrows ==
    /\ pPc = "calling"
    /\ pResponse.kind # "text"
    /\ pPc' = "threw"
    /\ UNCHANGED <<pAnalysis, pResponse, pPlan>>
    /\ UNCHANGED <<serverVars, keyVars, graphVars, analyzeVars, transformVars, extractVars, validateVars>>

PlanMigrationReturns ==
    /\ pPc = "calling"
    /\ pResponse.kind = "text"
    /\ LET recommendations == generateRecommendations(pResponse.text)
       IN  pPlan' =
             [recommendations |-> recommendations,
              summary |-> [totalFilesAnalyzed |-> pAnalysis.contracts,
                           totalContractsAnalyzed |-> pAnalysis.contracts,
                           totalRecommendations |-> Len(recommendations),
                           highConfidenceCount |-> CountLevel(recommendations, "high"),
                           mediumConfidenceCount |-> CountLevel(recommendations, "medium"),
                           lowConfidenceCount |-> CountLevel(recommendations, "low")]]
    /\ pPc' = "returned"
    /\ UNCHANGED <<pAnalysis, pResponse>>
    /\ UNCHANGED <<serverVars, keyVars, graphVars, analyzeVars, transformVars, extractVars, validateVars>>

PlanMigrationNext == PlanMigrationThrows \/ PlanMigrationReturns

(***************************************************************************)
(* The transformer's texts.  A file content, a path and a name are token   *)
(* sequences.  The tokens are chosen so that every character the code      *)
(* looks for ('/', '@', a quote, a brace, white space, a line break, the   *)
(* words "import", "http" and "IERC", a leading "." or "..") is a token of *)
(* its own and occurs in no other token.                                   *)
(***************************************************************************)
DQ      == "\""
SQ      == "'"
LBrace  == "{"
RBrace  == "}"
Space   == " "
Newline == "\n"
Import  == "import"
At      == "@"
Dot     == "."
DotDot  == ".."
Http    == "http"
IERC    == "IERC"

\* str.includes(tok)
IncludesToken(str, tok) == \E i \in 1..Len(str) : str[i] = tok

\* str.lastIndexOf('/'), counted from 1; 0 when there is none.
LastSlash(str) ==
    LET at == { i \in 1..Len(str) : str[i] = Slash }
    IN  IF at = {} THEN 0 ELSE CHOOSE i \in at : \A j \in at : j <= i

\* str.substring(0, str.lastIndexOf('/')): empty when there is no '/'.
DirName(str) == SubSeq(str, 1, LastSlash(str) - 1)

\* str.substring(n), n counted in tokens.
DropTokens(str, n) == SubSeq(str, n + 1, Len(str))

StartsWith(str, prefix) ==
    Len(str) >= Len(prefix) /\ SubSeq(str, 1, Len(prefix)) = prefix

\* resolveImport(fromFile, importPath)
resolveImport(fromFile, importPath) ==
    LET fromDir == DirName(fromFile)
    IN  IF StartsWith(importPath, <<Dot, Slash>>)
        THEN fromDir \o <<Slash>> \o DropTokens(importPath, 2)
        ELSE IF StartsWith(importPath, <<DotDot, Slash>>)
        THEN DirName(fromDir) \o <<Slash>> \o DropTokens(importPath, 2)
        ELSE importPath

\* fileExists(path): some analysed contract has this file path.
fileExists(contracts, path) ==
    \E i \in 1..Len(contracts) : contracts[i].filePath = path

\* The run of tokens from position i on that are not in stop.
RECURSIVE RunUntil(_, _, _)
RunUntil(str, i, stop) ==
    IF i > Len(str) \/ str[i] \in stop THEN <<>>
    ELSE <<str[i]>> \o RunUntil(str, i + 1, stop)

\* \s+ : the number of white-space tokens from position i on.
RECURSIVE Blanks(_, _)
Blanks(str, i) ==
    IF i > Len(str) \/ str[i] \notin {Space, Newline} THEN 0
    ELSE 1 + Blanks(str, i + 1)

\* /import\s+["{]([^"}]+)["}]/ tried at position i: the position of the last
\* token of the match, or 0.
ImportEndAt(str, i) ==
    IF i > Len(str) \/ str[i] # Import THEN 0
    ELSE LET ws == Blanks(str, i + 1)
             open == i + 1 + ws
         IN  IF ws = 0 \/ open > Len(str) \/ str[open] \notin {DQ, LBrace} THEN 0
             ELSE LET body == Len(RunUntil(str, open + 1, {DQ, RBrace}))
                      close == open + 1 + body
                  IN  IF body = 0 \/ close > Len(str) THEN 0 ELSE close

\* content.match(/import\s+["{]([^"}]+)["}]/g) || []: the matches from
\* position i on, in order, each one after the end of the one before.
RECURSIVE importMatches(_, _)
importMatches(str, i) ==
    IF i > Len(str) THEN <<>>
    ELSE IF ImportEndAt(str, i) = 0 THEN importMatches(str, i + 1)
    ELSE <<SubSeq(str, i, ImportEndAt(str, i))>>
         \o importMatches(str, ImportEndAt(str, i) + 1)

\* importStatement.match(/["']([^"']+)["']/)?.[1]: the first quoted text of the
\* statement from position i on; <<>> when there is none (undefined).
RECURSIVE quotedPath(_, _)
quotedPath(str, i) ==
    IF i > Len(str) THEN <<>>
    ELSE LET body == RunUntil(str, i + 1, {DQ, SQ})
         IN  IF str[i] \in {DQ, SQ} /\ body # <<>> /\ i + 1 + Len(body) <= Len(str)
             THEN body
             ELSE quotedPath(str, i + 1)

\* content.split('\n')
RECURSIVE Split(_)
Split(str) ==
    LET line == RunUntil(str, 1, {Newline})
    IN  IF Len(line) = Len(str) THEN <<line>>
        ELSE <<line>> \o Split(DropTokens(str, Len(line) + 1))

(***************************************************************************)
(* SpecTransform: transformRepository.  The recommendations of the plan    *)
(* are grouped by file; for each file transformFile awaits the file's      *)
(* content and the language model's transformation, and the loop's try     *)
(* block turns a throw into an entry of report.errors.  After the loop the *)
(* cross-file consistency is checked and the summary computed.             *)
(*                                                                         *)
(* Numbers with two decimals (confidence scores) are counted in            *)
(* hundredths.  The code computes them in double precision, where a        *)
(* quotient that is exactly half-way between two hundredths may come out   *)
(* just below the half: Math.round of such a value is either neighbour.    *)
(***************************************************************************)
MaxRecs == 2

MaxChanges == 2

\* generateDiffPreview looks at the first 10 lines.
DiffPreviewLines == 10

TokenSol == <<"contracts", Slash, "Token.sol">>
SaleSol  == <<"contracts", Slash, "Sale.sol">>

TokenName   == <<"Token">>
SaleName    == <<"Sale">>
OwnableName == <<"Ownable">>
IERC20Name  == <<IERC, "20">>

\* analysisResult.contracts: Token in contracts/Token.sol or not, and Sale in
\* contracts/Sale.sol with one parent or none, or not.
AnalysedContracts ==
    { t \o c :
        t \in { <<>>, << [name |-> TokenName, filePath |-> TokenSol, inherits |-> <<>>] >> },
        c \in { <<>> } \cup
              { << [name |-> SaleName, filePath |-> SaleSol, inherits |-> inh] >> :
                  inh \in { <<>>, <<TokenName>>, <<OwnableName>>, <<IERC20Name>> } } }

ConfidenceLevels == {"high", "medium", "low"}

Recommendations == [filePath : {TokenSol, SaleSol}, confidenceLevel : ConfidenceLevels]

RecommendationLists == UNION { [1..k -> Recommendations] : k \in 0..MaxRecs }

\* The lines of a file.
CodeLine == <<"contract Sale {}">>
Filler   == <<"// filler">>
ImportDoubleQuoted(path) == <<Import, Space, DQ>> \o path \o <<DQ, ";">>
ImportSingleQuoted(path) == <<Import, Space, SQ>> \o path \o <<SQ, ";">>
ImportNamed(path) ==
    <<Import, Space, LBrace, "Missing", RBrace, Space, "from", Space, DQ>>
    \o path \o <<DQ, ";">>

TokenPath   == <<Dot, Slash, "Token.sol">>
MissingPath == <<Dot, Slash, "Missing.sol">>
PackagePath == <<At, "openzeppelin", Slash, "Ownable.sol">>

LastLines ==
    { CodeLine, ImportDoubleQuoted(TokenPath), ImportDoubleQuoted(MissingPath),
      ImportSingleQuoted(MissingPath), ImportNamed(MissingPath),
      ImportDoubleQuoted(PackagePath) }

\* lines.join('\n')
RECURSIVE Join(_)
Join(lines) ==
    IF lines = <<>> THEN <<>>
    ELSE IF Len(lines) = 1 THEN lines[1]
    ELSE lines[1] \o <<Newline>> \o Join(Tail(lines))

\* Every file starts with as many filler lines as the diff preview looks at
\* and ends with one line of code.
OriginalContent == Join([i \in 1..DiffPreviewLines |-> Filler] \o <<CodeLine>>)

\* transformedCode of an answer: absent, not a string, or the file with its
\* last line replaced or with a new first line.
Undefined  == <<>>
NotAString == <<"[object Object]">>

TransformedCodes ==
    { Undefined, NotAString }
    \cup { Join([i \in 1..DiffPreviewLines |-> Filler] \o <<l>>) : l \in LastLines }
    \cup { Join(<<CodeLine>> \o [i \in 1..DiffPreviewLines |-> Filler]) }

\* What performFileTransformation returns: the parsed answer, or a skip when the
\* answer holds no JSON object or JSON.parse throws.
\* An answer without a reason, or with an empty one.
NoReason == ""

PerFileTransformations ==
    [action : {"apply", "skip"}, reason : {"Ambiguous recommendation", NoReason},
     appliedChanges : 0..MaxChanges, transformedCode : TransformedCodes,
     warnings : {<<>>}]
    \cup { [action |-> "skip", reason |-> "Failed to parse transformation response",
            appliedChanges |-> 0, transformedCode |-> Undefined,
            warnings |-> <<"Claude response parsing failed">>],
           [action |-> "skip", reason |-> "Failed to parse Claude JSON response",
            appliedChanges |-> 0, transformedCode |-> Undefined,
            warnings |-> <<"JSON parsing error">>] }

\* What makes transformFile throw.
TransformFileErrors == {"Could not fetch file content", "Claude transformation call failed"}

\* groupRecommendationsByFile: the files in order of first occurrence, each
\* with its recommendations in order.
RECURSIVE FilesOf(_, _)
FilesOf(recommendations, seen) ==
    IF recommendations = <<>> THEN <<>>
    ELSE IF Head(recommendations).filePath \in seen
    THEN FilesOf(Tail(recommendations), seen)
    ELSE <<Head(recommendations).filePath>>
         \o FilesOf(Tail(recommendations), seen \cup {Head(recommendations).filePath})

groupRecommendationsByFile(recommendations) ==
    LET files == FilesOf(recommendations, {})
    IN  [i \in 1..Len(files) |->
           [filePath |-> files[i],
            recommendations |-> SelectSeq(recommendations,
                                          LAMBDA r : r.filePath = files[i])]]

\* Math.round(num / den): the nearest integer, the upper one at a tie, where
\* the double may also give the lower one.
MathRound(num, den) ==
    LET up == (2 * num + den) \div (2 * den)
    IN  IF (2 * num) % den = 0 /\ ((2 * num) \div den) % 2 = 1
        THEN {up - 1, up}
        ELSE {up}

\* r.confidenceLevel === 'high' ? 0.9 : r.confidenceLevel === 'medium' ? 0.6 : 0.3
LevelConfidence(level) ==
    IF level = "high" THEN 90 ELSE IF level = "medium" THEN 60 ELSE 30

RECURSIVE SumConfidence(_)
SumConfidence(recommendations) ==
    IF recommendations = <<>> THEN 0
    ELSE LevelConfidence(Head(recommendations).confidenceLevel)
         + SumConfidence(Tail(recommendations))

\* A variant of calculateConfidenceScore without the test for no applied change.
calculateConfidenceScoreUnconditional(appliedChanges, recommendations) ==
    MathRound(SumConfidence(recommendations), Len(recommendations))

\* A variant of calculateConfidenceScore without the application rate.
calculateConfidenceScoreUnscaled(appliedChanges, recommendations) ==
    IF appliedChanges = 0 THEN {0}
    ELSE MathRound(SumConfidence(recommendations), Len(recommendations))

\* calculateConfidenceScore: avgConfidence * applicationRate, to two decimals.
calculateConfidenceScore(appliedChanges, recommendations) ==
    IF appliedChanges = 0 THEN {0}
    ELSE MathRound(SumConfidence(recommendations) * appliedChanges,
                   Len(recommendations) * Len(recommendations))

\* line i of a text that was split, "undefined" beyond its end.
LineAt(lines, i) == IF i <= Len(lines) THEN lines[i] ELSE <<"undefined">>

\* generateDiffPreview: the pairs of differing lines among the first ten; the
\* preview is their text, cut at 500 characters, and is empty exactly when
\* there is no pair.
generateDiffPreview(original, transformed) ==
    IF original = transformed THEN <<>>
    ELSE LET originalLines == Split(original)
             transformedLines == Split(transformed)
             maxLines == IF Len(originalLines) > Len(transformedLines)
                         THEN Len(originalLines) ELSE Len(transformedLines)
             last == IF maxLines < DiffPreviewLines THEN maxLines ELSE DiffPreviewLines
             differs == { i \in 1..last :
                            LineAt(originalLines, i) # LineAt(transformedLines, i) }
             RECURSIVE Diffs(_)
             Diffs(i) ==
                 IF i > last THEN <<>>
                 ELSE (IF i \in differs
                       THEN << [minus |-> LineAt(originalLines, i),
                                plus |-> LineAt(transformedLines, i)] >>
                       ELSE <<>>) \o Diffs(i + 1)
         IN  Diffs(1)

\* The import issues of one transformed file: for every matched import
\* statement with a quoted path that does not start with 'http', an issue when
\* the resolved path is no analysed contract's file and the path has no '@'.
RECURSIVE ImportIssues(_, _, _)
ImportIssues(filePath, statements, contracts) ==
    IF statements = <<>> THEN <<>>
    ELSE LET importPath == quotedPath(Head(statements), 1)
         IN  (IF /\ importPath # <<>>
                 /\ ~StartsWith(importPath, <<Http>>)
                 /\ ~fileExists(contracts, resolveImport(filePath, importPath))
                 /\ ~IncludesToken(importPath, At)
              THEN << [kind |-> "Import not found", in |-> filePath, ref |-> importPath] >>
              ELSE <<>>)
             \o ImportIssues(filePath, Tail(statements), contracts)

RECURSIVE AllImportIssues(_, _)
AllImportIssues(transformedFiles, contracts) ==
    IF transformedFiles = <<>> THEN <<>>
    ELSE ImportIssues(Head(transformedFiles).filePath,
                      importMatches(Head(transformedFiles).transformedContent, 1),
                      contracts)
         \o AllImportIssues(Tail(transformedFiles), contracts)

\* this.analysisResult.contracts.find((c) => c.name === parentName) is defined
Declares(contracts, name) == \E i \in 1..Len(contracts) : contracts[i].name = name

\* The parents of every contract, in order, that pass the test unknown(parent).
RECURSIVE ParentIssues(_, _, _, _)
ParentIssues(kind, contracts, rest, exempt) ==
    IF rest = <<>> THEN <<>>
    ELSE LET contract == Head(rest)
             parents == SelectSeq(contract.inherits,
                                  LAMBDA q : ~Declares(contracts, q)
                                             /\ ~IncludesToken(q, exempt))
         IN  [i \in 1..Len(parents) |->
                [kind |-> kind, in |-> contract.name, ref |-> parents[i]]]
             \o ParentIssues(kind, contracts, Tail(rest), exempt)

\* validateCrossFileConsistency, inheritance part: a parent that is no analysed
\* contract's name and has no '@'.
InheritanceIssues(contracts) ==
    ParentIssues("Parent contract not found", contracts, contracts, At)

\* ExplainerValidatorAgent.validateInheritance: a parent that is no analysed
\* contract's name and does not contain "IERC".
validateInheritance(contracts) ==
    ParentIssues("inherits from unknown parent", contracts, contracts, IERC)

\* A variant of validateCrossFileConsistency that leaves importsValid as it was.
validateCrossFileConsistencyKeepingFlag(transformedFiles, contracts) ==
    LET imports == AllImportIssues(transformedFiles, contracts)
        inheritance == InheritanceIssues(contracts)
    IN  [checked |-> TRUE,
         importsValid |-> TRUE,
         inheritanceValid |-> inheritance = <<>>,
         issues |-> imports \o inheritance]

\* validateCrossFileConsistency
validateCrossFileConsistency(transformedFiles, contracts) ==
    LET imports == AllImportIssues(transformedFiles, contracts)
        inheritance == InheritanceIssues(contracts)
    IN  [checked |-> TRUE,
         importsValid |-> imports = <<>>,
         inheritanceValid |-> inheritance = <<>>,
         issues |-> imports \o inheritance]

\* A variant of reportRecommendations that passes over the consistency issues.
reportRecommendationsWithoutIssues(report) ==
    LET found ==
          (IF report.filesModified = 0
           THEN << [text |-> "No transformations applied - review migration plan",
                    n |-> 0] >>
           ELSE <<>>)
          \o (IF report.summary.overallConfidence < 70
              THEN << [text |-> "Low confidence in transformations - manual review recommended",
                       n |-> 0] >>
              ELSE <<>>)
          \o (IF Len(report.errors) > 0
              THEN << [text |-> "Review ${n} transformation errors",
                       n |-> Len(report.errors)] >>
              ELSE <<>>)
    IN  IF found = <<>>
        THEN << [text |-> "Transformations completed successfully - ready for testing",
                 n |-> 0] >>
        ELSE found

\* TransformerAgent.generateRecommendations(report).  A recommendation is its
\* text and the number the text carries (0 when it carries none).
reportRecommendations(report) ==
    LET found ==
          (IF report.filesModified = 0
           THEN << [text |-> "No transformations applied - review migration plan",
                    n |-> 0] >>
           ELSE <<>>)
          \o (IF report.summary.overallConfidence < 70
              THEN << [text |-> "Low confidence in transformations - manual review recommended",
                       n |-> 0] >>
              ELSE <<>>)
          \o (IF Len(report.crossFileConsistency.issues) > 0
              THEN << [text |-> "Fix ${n} cross-file consistency issues",
                       n |-> Len(report.crossFileConsistency.issues)] >>
              ELSE <<>>)
          \o (IF Len(report.errors) > 0
              THEN << [text |-> "Review ${n} transformation errors",
                       n |-> Len(report.errors)] >>
              ELSE <<>>)
    IN  IF found = <<>>
        THEN << [text |-> "Transformations completed successfully - ready for testing",
                 n |-> 0] >>
        ELSE found

RECURSIVE SumScores(_)
SumScores(fileReports) ==
    IF fileReports = <<>> THEN 0
    ELSE Head(fileReports).confidenceScore + SumScores(Tail(fileReports))

NewReport ==
    [filesProcessed |-> 0, filesModified |-> 0, filesSkipped |-> 0,
     totalAppliedChanges |-> 0, totalSkippedChanges |-> 0,
     fileReports |-> <<>>,
     crossFileConsistency |-> [checked |-> FALSE, importsValid |-> TRUE,
                               inheritanceValid |-> TRUE, issues |-> <<>>],
     summary |-> [overallConfidence |-> 0, recommendations |-> <<>>],
     errors |-> <<>>]

TransformIdle ==
    /\ tPlan = <<>>
    /\ tAnalysis = <<>>
    /\ tQueue = <<>>
    /\ tTransformedFiles = <<>>
    /\ tAnswers = <<>>
    /\ tReport = NewReport
    /\ tPc = "transforming"

TransformInit ==
    /\ tPlan \in RecommendationLists
    /\ tAnalysis \in AnalysedContracts
    /\ tQueue = groupRecommendationsByFile(tPlan)
    /\ tTransformedFiles = <<>>
    /\ tAnswers = <<>>
    /\ tReport = NewReport
    /\ tPc = "transforming"

\* A variant of FileFailed that does not count the file as skipped.
FileFailedUncounted(report, filePath, error) ==
    [report EXCEPT !.filesProcessed = @ + 1,
                   !.errors = Append(@, [filePath |-> filePath, error |-> error])]

\* The catch of the loop's try block.
FileFailed(report, filePath, error) ==
    [report EXCEPT !.filesProcessed = @ + 1,
                   !.filesSkipped = @ + 1,
                   !.errors = Append(@, [filePath |-> filePath, error |-> error])]

\* transformFile returns for the next file: the report's counters, the entry
\* of transformedFiles and the file report.  generateDiffPreview throws on a
\* transformed content that is not a string, after the counters were updated
\* and the entry was set.
TransformFileReturns ==
    /\ tPc = "transforming"
    /\ tQueue # <<>>
    /\ \E transformation \in PerFileTransformations :
         LET filePath == Head(tQueue).filePath
             recommendations == Head(tQueue).recommendations
             appliedChanges ==
                 IF transformation.action = "apply"
                 THEN transformation.appliedChanges ELSE 0
             skippedChanges ==
                 IF transformation.action = "skip"
                 THEN [i \in 1..Len(recommendations) |->
                         [changeIndex |-> i - 1,
                          reason |-> IF transformation.reason # NoReason
                                     THEN transformation.reason
                                     ELSE "Ambiguous or unsafe transformation"]]
                 ELSE <<>>
             hasChanges == appliedChanges > 0
             transformedContent ==
                 IF hasChanges /\ transformation.transformedCode # Undefined
                 THEN transformation.transformedCode
                 ELSE OriginalContent
         IN  \E confidenceScore \in calculateConfidenceScore(appliedChanges, recommendations) :
               LET transformed ==
                     [filePath |-> filePath,
                      originalContent |-> OriginalContent,
                      transformedContent |-> transformedContent,
                      appliedChanges |-> appliedChanges,
                      skippedChanges |-> skippedChanges,
                      hasChanges |-> hasChanges,
                      confidenceScore |-> confidenceScore,
                      warnings |-> transformation.warnings]
                   counted ==
                     [tReport EXCEPT
                        !.filesProcessed = @ + 1,
                        !.filesModified = IF hasChanges THEN @ + 1 ELSE @,
                        !.filesSkipped = IF hasChanges THEN @ ELSE @ + 1,
                        !.totalAppliedChanges = @ + appliedChanges,
                        !.totalSkippedChanges = @ + Len(skippedChanges)]
                   fileReport ==
                     [filePath |-> filePath,
                      success |-> TRUE,
                      appliedChangesCount |-> appliedChanges,
                      skippedChangesCount |-> Len(skippedChanges),
                      confidenceScore |-> confidenceScore,
                      warnings |-> transformed.warnings,
                      diffPreview |-> generateDiffPreview(OriginalContent,
                                                          transformedContent)]
               IN  /\ tTransformedFiles' = Append(tTransformedFiles, transformed)
                   /\ tAnswers' = Append(tAnswers, [filePath |-> filePath,
                                                    action |-> transformation.action])
                   /\ tReport' =
                        IF transformedContent = NotAString
                        THEN FileFailed(counted, filePath,
                                        "transformed.split is not a function")
                        ELSE [counted EXCEPT !.fileReports = Append(@, fileReport)]
    /\ tQueue' = Tail(tQueue)
    /\ UNCHANGED <<tPlan, tAnalysis, tPc>>
    /\ UNCHANGED <<serverVars, keyVars, graphVars, analyzeVars, planVars, extractVars, validateVars>>

\* transformFile throws for the next file: its content could not be fetched,
\* or the call of the language model failed.
TransformFileThrows ==
    /\ tPc = "transforming"
    /\ tQueue # <<>>
    /\ \E error \in TransformFileErrors :
         tReport' = FileFailed(tReport, Head(tQueue).filePath, error)
    /\ tQueue' = Tail(tQueue)
    /\ UNCHANGED <<tPlan, tAnalysis, tTransformedFiles, tAnswers, tPc>>
    /\ UNCHANGED <<serverVars, keyVars, graphVars, analyzeVars, planVars, extractVars, validateVars>>

\* After the loop: the consistency check, the overall confidence, the
\* recommendations; the report is returned.
TransformReturns ==
    /\ tPc = "transforming"
    /\ tQueue = <<>>
    /\ \A i \in 1..Len(tTransformedFiles) :
         tTransformedFiles[i].transformedContent # NotAString
    /\ \E overallConfidence \in
            IF tReport.filesModified > 0
            THEN MathRound(SumScores(tReport.fileReports), Len(tReport.fileReports))
            ELSE {0} :
         LET checked == [tReport EXCEPT
                           !.crossFileConsistency =
                               validateCrossFileConsistency(tTransformedFiles, tAnalysis),
                           !.summary.overallConfidence = overallConfidence]
         IN  tReport' = [checked EXCEPT
                           !.summary.recommendations = reportRecommendations(checked)]
    /\ tPc' = "returned"
    /\ UNCHANGED <<tPlan, tAnalysis, tQueue, tTransformedFiles, tAnswers>>
    /\ UNCHANGED <<serverVars, keyVars, graphVars, analyzeVars, planVars, extractVars, validateVars>>

\* After the loop: transformedContent.match throws in the consistency check
\* for a content that is not a string; the outer catch records the error and
\* throws it on.
TransformThrows ==
    /\ tPc = "transforming"
    /\ tQueue = <<>>
    /\ \E i \in 1..Len(tTransformedFiles) :
         tTransformedFiles[i].transformedContent = NotAString
    /\ tReport' = [tReport EXCEPT
                     !.crossFileConsistency.checked = TRUE,
                     !.errors = Append(@, [filePath |-> Undefined,
                                           error |-> "transformedContent.match is not a function"])]
    /\ tPc' = "threw"
    /\ UNCHANGED <<tPlan, tAnalysis, tQueue, tTransformedFiles, tAnswers>>
    /\ UNCHANGED <<serverVars, keyVars, graphVars, analyzeVars, planVars, extractVars, validateVars>>

TransformNext ==
    TransformFileReturns \/ TransformFileThrows \/ TransformReturns \/ TransformThrows

(***************************************************************************)
(* SpecExtract: parseFile once the parser returned the syntax tree.  The   *)
(* tree is what the extraction reads of it: the texts of the import        *)
(* directives and, for every declaration, the node type, whether its text  *)
(* starts with 'abstract ', the name, the names in the inheritance         *)
(* specifier and the function definitions, each with its name and the      *)
(* text of its visibility node.  State variables and the upgradeable       *)
(* patterns, which nothing else in the analysis reads, are left out.       *)
(***************************************************************************)
MaxImports == 2

MaxFunctions == 2

MaxDeclarations == 1

\* A node or field that the tree does not have.
NoNode == ""

\* An import directive without a quoted path.
ImportUnquoted == <<Import, Space, "Token", ";">>

ImportDirectives ==
    { ImportDoubleQuoted(TokenPath), ImportSingleQuoted(TokenPath),
      ImportDoubleQuoted(MissingPath), ImportNamed(MissingPath), ImportUnquoted }

FunctionNodes ==
    [name : {"transfer"}, visibility : {NoNode, "public", "external", "internal", "private"}]
    \cup { [name |-> NoNode, visibility |-> "public"] }

\* The texts of the identifier and user_defined_type nodes of an inheritance
\* specifier, in the order the search finds them; <<>> without a specifier.
InheritanceClauses ==
    { <<>>, <<"Ownable">>, <<"Ownable", "Pausable">>, <<"Ownable", "Ownable">>,
      <<"Ownable", "Pausable", "Ownable">> }

DeclarationNodes ==
    [type : {"contract_declaration", "interface_declaration", "library_declaration"},
     abstract : {FALSE},
     name : {"Token", NoNode},
     inheritance : InheritanceClauses,
     functions : UNION { [1..k -> FunctionNodes] : k \in 0..MaxFunctions }]
    \cup
    [type : {"contract_declaration"},
     abstract : {TRUE},
     name : {"Token", NoNode},
     inheritance : InheritanceClauses,
     functions : UNION { [1..k -> FunctionNodes] : k \in 0..MaxFunctions }]

RootNodes ==
    [imports : UNION { [1..k -> ImportDirectives] : k \in 0..MaxImports },
     declarations : UNION { [1..k -> DeclarationNodes] : k \in 0..MaxDeclarations }]

\* extractImports: the first quoted text of every directive that has one.
RECURSIVE extractImports(_)
extractImports(directives) ==
    IF directives = <<>> THEN <<>>
    ELSE (IF quotedPath(Head(directives), 1) # <<>>
          THEN <<quotedPath(Head(directives), 1)>> ELSE <<>>)
         \o extractImports(Tail(directives))

\* A variant of extractFunctions that keeps the functions of every visibility.
RECURSIVE extractFunctionsOfAnyVisibility(_)
extractFunctionsOfAnyVisibility(nodes) ==
    IF nodes = <<>> THEN <<>>
    ELSE LET node == Head(nodes)
             visibility == IF node.visibility \in {"external", "internal", "private"}
                           THEN node.visibility ELSE "public"
         IN  (IF node.name = NoNode THEN <<>>
              ELSE << [name |-> node.name, visibility |-> visibility] >>)
             \o extractFunctionsOfAnyVisibility(Tail(nodes))

\* extractFunctions: a function without a name is passed over; the visibility
\* is 'public' unless the visibility node says external, internal or private;
\* only public and external functions are kept.
RECURSIVE extractFunctions(_)
extractFunctions(nodes) ==
    IF nodes = <<>> THEN <<>>
    ELSE LET node == Head(nodes)
             visibility == IF node.visibility \in {"external", "internal", "private"}
                           THEN node.visibility ELSE "public"
         IN  (IF node.name = NoNode \/ visibility \notin {"public", "external"}
              THEN <<>>
              ELSE << [name |-> node.name, visibility |-> visibility] >>)
             \o extractFunctions(Tail(nodes))

\* A variant of extractInherits that pushes every name.
RECURSIVE extractInheritsKeepingAll(_, _)
extractInheritsKeepingAll(names, inherits) ==
    IF names = <<>> THEN inherits
    ELSE extractInheritsKeepingAll(Tail(names),
                                   IF Head(names) # NoNode
                                   THEN Append(inherits, Head(names)) ELSE inherits)

\* if (inhName && !inherits.includes(inhName)) inherits.push(inhName)
RECURSIVE extractInherits(_, _)
extractInherits(names, inherits) ==
    IF names = <<>> THEN inherits
    ELSE extractInherits(Tail(names),
                         IF Head(names) # NoNode /\ ~Includes(inherits, Head(names))
                         THEN Append(inherits, Head(names)) ELSE inherits)

\* extractContract: <<>> for a declaration without a name (null), else the contract.
extractContract(node, filePath, fileImports) ==
    IF node.name = NoNode THEN <<>>
    ELSE << [name |-> node.name,
             type |-> IF node.type = "interface_declaration" THEN "interface"
                      ELSE IF node.type = "library_declaration" THEN "library"
                      ELSE IF node.abstract THEN "abstract" ELSE "contract",
             filePath |-> filePath,
             imports |-> fileImports,
             inherits |-> extractInherits(node.inheritance, <<>>),
             functions |-> extractFunctions(node.functions)] >>

RECURSIVE extractContracts(_, _, _)
extractContracts(nodes, filePath, fileImports) ==
    IF nodes = <<>> THEN <<>>
    ELSE extractContract(Head(nodes), filePath, fileImports)
         \o extractContracts(Tail(nodes), filePath, fileImports)

ExtractIdle ==
    /\ xRoot = [imports |-> <<>>, declarations |-> <<>>]
    /\ xContracts = <<>>
    /\ xPc = "parsed"

ExtractInit ==
    /\ xRoot \in RootNodes
    /\ xContracts = <<>>
    /\ xPc = "parsed"

\* parseFile from the extraction of the imports to its return.
ParseFileExtracts ==
    /\ xPc = "parsed"
    /\ xContracts' = extractContracts(xRoot.declarations, FilePath(1),
                                      extractImports(xRoot.imports))
    /\ xPc' = "extracted"
    /\ UNCHANGED xRoot
    /\ UNCHANGED <<serverVars, keyVars, graphVars, analyzeVars, planVars, transformVars, validateVars>>

ExtractNext == ParseFileExtracts

(***************************************************************************)
(* SpecValidate: ExplainerValidatorAgent.validateCode.  The errors are the *)
(* issues of validateImports and validateInheritance (the check of the     *)
(* contract references finds none); the warnings are those of the Monad    *)
(* checks and of the risky patterns, and those about the transformation    *)
(* report's cross-file issues.  Of the analysis the two warning checks     *)
(* read whether some contract passes each of their filters: these are the  *)
(* facts of the analysis.  No compiler is available, and the notes are     *)
(* left out.                                                               *)
(***************************************************************************)
MaxValidated == 2

MaxIssues == 4

\* The first issues of the transformation report the warnings repeat.
IssuesRepeated == 3

ValidatedImports ==
    { <<>>, <<TokenPath>>, <<PackagePath>>, <<MissingPath>>, <<MissingPath, TokenPath>> }

ValidatedContracts ==
    [name : {TokenName, SaleName},
     imports : ValidatedImports,
     inherits : { <<>>, <<TokenName>>, <<OwnableName>>, <<IERC20Name>> }]

\* What performMonadChecks and detectRiskyPatterns read of the analysis.
AnalysisFacts ==
    [assembly : BOOLEAN, timeDependent : BOOLEAN, large : BOOLEAN,
     upgradeable : BOOLEAN, manyCalls : BOOLEAN, manyVariables : BOOLEAN]

\* validateImports: an import that is no analysed contract's name and has no '@'.
RECURSIVE validateImports(_, _)
validateImports(contracts, rest) ==
    IF rest = <<>> THEN <<>>
    ELSE LET contract == Head(rest)
             unknown == SelectSeq(contract.imports,
                                  LAMBDA importedName :
                                      ~Declares(contracts, importedName)
                                      /\ ~IncludesToken(importedName, At))
         IN  [i \in 1..Len(unknown) |->
                [kind |-> "imports unknown contract", in |-> contract.name,
                 ref |-> unknown[i]]]
             \o validateImports(contracts, Tail(rest))

\* validateContractReferences pushes nothing.
validateContractReferences == <<>>

performMonadChecks(facts) ==
    (IF facts.assembly THEN <<"Assembly code detected">> ELSE <<>>)
    \o (IF facts.timeDependent THEN <<"Time/block-dependent logic found">> ELSE <<>>)
    \o (IF facts.large THEN <<"Large contracts detected">> ELSE <<>>)
    \o (IF facts.upgradeable THEN <<"UUPS/Proxy pattern detected">> ELSE <<>>)

detectRiskyPatterns(facts) ==
    (IF facts.manyCalls THEN <<"Many external dependencies + many functions">> ELSE <<>>)
    \o (IF facts.manyVariables THEN <<"Contracts with >20 state variables detected">> ELSE <<>>)

\* A variant of validationConfidence with the two error buckets exchanged.
validationConfidenceExchanged(errors, warnings) ==
    IF errors = 0
    THEN IF warnings = 0 THEN 95 ELSE 80
    ELSE IF errors > 3 THEN 50 ELSE 20

\* const confidenceScore = ..., of the numbers of errors and warnings, in hundredths.
validationConfidence(errors, warnings) ==
    IF errors = 0
    THEN IF warnings = 0 THEN 95 ELSE 80
    ELSE IF errors > 3 THEN 20 ELSE 50

NoValidation ==
    [compilationStatus |-> "none", errors |-> <<>>, warnings |-> <<>>,
     confidenceScore |-> 0]

ValidateIdle ==
    /\ vAnalysis = [contracts |-> <<>>,
                    facts |-> [assembly |-> FALSE, timeDependent |-> FALSE,
                               large |-> FALSE, upgradeable |-> FALSE,
                               manyCalls |-> FALSE, manyVariables |-> FALSE]]
    /\ vIssues = <<>>
    /\ vReport = NoValidation
    /\ vPc = "validating"

ValidateInit ==
    /\ vAnalysis \in
         [contracts : UNION { [1..k -> ValidatedContracts] : k \in 0..MaxValidated },
          facts : AnalysisFacts]
    /\ \A i, j \in 1..Len(vAnalysis.contracts) :
         i < j => vAnalysis.contracts[i].name # vAnalysis.contracts[j].name
    /\ vIssues \in { [i \in 1..k |-> "issue"] : k \in 0..MaxIssues }
    /\ vReport = NoValidation
    /\ vPc = "validating"

\* validateCode from its first check to its return.
ValidateCode ==
    /\ vPc = "validating"
    /\ LET errors == validateImports(vAnalysis.contracts, vAnalysis.contracts)
                     \o validateInheritance(vAnalysis.contracts)
                     \o validateContractReferences
           warnings == performMonadChecks(vAnalysis.facts)
                       \o detectRiskyPatterns(vAnalysis.facts)
                       \o (IF Len(vIssues) > 0
                           THEN <<"Cross-file consistency: ${n} issues detected">>
                                \o SubSeq(vIssues, 1,
                                          IF Len(vIssues) < IssuesRepeated
                                          THEN Len(vIssues) ELSE IssuesRepeated)
                           ELSE <<>>)
       IN  vReport' = [compilationStatus |-> "not-attempted",
                       errors |-> errors,
                       warnings |-> warnings,
                       confidenceScore |-> validationConfidence(Len(errors), Len(warnings))]
    /\ vPc' = "validated"
    /\ UNCHANGED <<vAnalysis, vIssues>>
    /\ UNCHANGED <<serverVars, keyVars, graphVars, analyzeVars, planVars, transformVars, extractVars>>

ValidateNext == ValidateCode

(***************************************************************************)
(* The specifications.  Each one runs its own part of the state and leaves *)
(* the rest at its initial value.                                          *)
(***************************************************************************)
KeyIdle ==
    /\ kUrl = <<>>
    /\ kPc = "url"
    /\ kIngestKey = NoKey
    /\ kHandlerKey = NoKey

GraphIdle ==
    /\ gContracts = <<>>
    /\ gGraph = EmptyGraph
    /\ gEntryPoints = <<>>
    /\ gPc = "parsed"

Init == ServerInit /\ KeyIdle /\ GraphIdle /\ AnalyzeIdle /\ PlanIdle /\ TransformIdle /\ ExtractIdle /\ ValidateIdle

Next == ServerNext

Spec == Init /\ [][Next]_vars

InitKey == ServerInit /\ KeyInit /\ GraphIdle /\ AnalyzeIdle /\ PlanIdle /\ TransformIdle /\ ExtractIdle /\ ValidateIdle

NextKey == KeyNext

SpecKey == InitKey /\ [][NextKey]_vars

InitGraph == ServerInit /\ KeyIdle /\ GraphInit /\ AnalyzeIdle /\ PlanIdle /\ TransformIdle /\ ExtractIdle /\ ValidateIdle

NextGraph == GraphNext

SpecGraph == InitGraph /\ [][NextGraph]_vars

InitAnalyze == ServerInit /\ KeyIdle /\ GraphIdle /\ AnalyzeInit /\ PlanIdle /\ TransformIdle /\ ExtractIdle /\ ValidateIdle

NextAnalyze == AnalyzeNext

SpecAnalyze == InitAnalyze /\ [][NextAnalyze]_vars

InitPlan == ServerInit /\ KeyIdle /\ GraphIdle /\ AnalyzeIdle /\ PlanInit /\ TransformIdle /\ ExtractIdle /\ ValidateIdle

NextPlan == PlanMigrationNext

SpecPlan == InitPlan /\ [][NextPlan]_vars

InitTransform ==
    ServerInit /\ KeyIdle /\ GraphIdle /\ AnalyzeIdle /\ PlanIdle /\ TransformInit
    /\ ExtractIdle /\ ValidateIdle

NextTransform == TransformNext

SpecTransform == InitTransform /\ [][NextTransform]_vars

InitExtract ==
    ServerInit /\ KeyIdle /\ GraphIdle /\ AnalyzeIdle /\ PlanIdle /\ TransformIdle
    /\ ExtractInit /\ ValidateIdle

NextExtract == ExtractNext

SpecExtract == InitExtract /\ [][NextExtract]_vars

InitValidate ==
    ServerInit /\ KeyIdle /\ GraphIdle /\ AnalyzeIdle /\ PlanIdle /\ TransformIdle
    /\ ExtractIdle /\ ValidateInit

NextValidate == ValidateNext

SpecValidate == InitValidate /\ [][NextValidate]_vars

(***************************************************************************)
(* The claims.                                                             *)
(***************************************************************************)
OnlyRepoId(r) == req[r].body.repoUrl = Absent /\ req[r].body.repoId # Absent

\* C1: requests that arrive for the same key while nothing is cached for it
\* never have two invocations of the same stage's compute function in flight:
\* the later caller waits for the first computation.
C1_OneComputationInFlight ==
    \A r1, r2 \in Reqs :
        ~ /\ r1 # r2
          /\ req[r1].cold /\ req[r2].cold
          /\ req[r1].cacheKey # NoKey
          /\ req[r1].cacheKey = req[r2].cacheKey
          /\ req[r1].pc \in Computes
          /\ req[r1].pc = req[r2].pc

\* C2: a step that replaces the tree of key k leaves no analysis and no plan
\* cached for k; a step that replaces the analysis of k leaves no plan cached
\* for k and does not touch the tree of k.
C2_UpstreamReplacementInvalidates ==
    [][\A k \in Keys :
         /\ repoCache'[k] # repoCache[k]
               => ~Has(analysisCache'[k]) /\ ~Has(planCache'[k])
         /\ analysisCache'[k] # analysisCache[k]
               => ~Has(planCache'[k]) /\ repoCache'[k] = repoCache[k]]_vars

\* C3: a handler never takes from a cache an artifact older than the TTL: the
\* tree, analysis or plan a request picks up from another request's computation
\* is at most CACHE_TTL_MS old when it is picked up.
C3_NoExpiredArtifactServed ==
    [][\A r \in Reqs :
         /\ (req'[r].tree # req[r].tree /\ req'[r].tree.by # r)
               => now - req'[r].tree.fetchedAt <= CACHE_TTL_MS
         /\ (req'[r].analysis # req[r].analysis /\ req'[r].analysis.by # r)
               => now - req'[r].analysis.timestamp <= CACHE_TTL_MS
         /\ (req'[r].plan # req[r].plan /\ req'[r].plan.by # r)
               => now - req'[r].plan.timestamp <= CACHE_TTL_MS]_vars

\* The cache holds an artifact of stage f for key k that is younger than the TTL.
FreshIn(f, k) ==
    IF f = "ingestRepository"
    THEN Has(repoCache[k]) /\ ~Expired(repoCache[k].fetchedAt)
    ELSE Has(CacheOf(f)[k]) /\ ~Expired(CacheOf(f)[k].timestamp)

\* C4: get-or-compute for every stage: a handler invokes a stage's compute
\* function for key k only when the cache holds no artifact of that stage for k
\* younger than the TTL, and the analysis a request computes is in the analysis
\* cache when the request has answered.
C4_GetOrCompute ==
    [][\A r \in Reqs :
         /\ \A f \in Computes :
              (req'[r].pc = f /\ req[r].pc # f /\ req'[r].cacheKey # NoKey)
                 => ~FreshIn(f, req'[r].cacheKey)
         /\ (req'[r].analysis.by = r /\ req'[r].status = 200 /\ req[r].status # 200)
               => analysisCache'[req'[r].cacheKey] = req'[r].analysis]_vars

\* C5: when a stage's compute function throws in a request, the request answers
\* with an error, it invoked that function once, and no cache holds an artifact
\* of that stage written by the request; no request invokes a stage's compute
\* function twice.
C5_FailedStageLeavesNoArtifact ==
    \A r \in Reqs :
        /\ \A f \in Computes : req[r].calls[f] <= 1
        /\ req[r].failed # "none" =>
              /\ req[r].pc = "done"
              /\ req[r].status = 500
              /\ req[r].failed \in Computes =>
                    /\ req[r].calls[req[r].failed] = 1
                    /\ \A k \in Keys : CacheOf(req[r].failed)[k].by # r

\* C5 witness: the analysis of a request threw after the request cached its tree.
C5_AnalysisThrewAfterIngest ==
    \E r \in Reqs :
        /\ req[r].failed = "analyzeSolidityRepository"
        /\ req[r].calls["ingestRepository"] = 1
        /\ Has(repoCache[req[r].cacheKey])

\* C6: the key the ingest handler wrote for a repository is the key the other
\* handlers derive for the same repository URL.
C6_IngestKeyIsHandlerKey ==
    kPc = "derived" => kHandlerKey = kIngestKey

\* The contract at position i passes the entry-point rule stated on the graph.
PassesEntryRule(i) ==
    LET n == gContracts[i].name
        E == { gGraph.edges[j] : j \in 1..Len(gGraph.edges) }
    IN  /\ gContracts[i].type = "contract"
        /\ ~ /\ \E e \in E : e.to = n /\ e.type = "inheritance"
             /\ ~\E e \in E : e.from = n /\ e.type = "inheritance"

Occurrences(list, x) == Cardinality({ i \in 1..Len(list) : list[i] = x })

\* C7: the entry points are the names of exactly the contracts of kind
\* 'contract' that are not both the target of an inheritance edge and the
\* source of none, once per such contract and in the contracts' order; a
\* concrete contract that is inherited from and itself inherits is listed; and
\* for Token and 'Sale is Token' the entry points are [Sale].
C7_EntryPointsRule ==
    gPc = "analyzed" =>
        /\ \A n \in ContractNames :
              Occurrences(gEntryPoints, n)
                 = Cardinality({ i \in 1..Len(gContracts) :
                                   gContracts[i].name = n /\ PassesEntryRule(i) })
        /\ \A i, j \in 1..Len(gEntryPoints) :
              i < j => \E a, b \in 1..Len(gContracts) :
                          /\ a < b
                          /\ gContracts[a].name = gEntryPoints[i]
                          /\ gContracts[b].name = gEntryPoints[j]
                          /\ PassesEntryRule(a) /\ PassesEntryRule(b)
        /\ \A i, j \in 1..Len(gContracts) :
              ( /\ gContracts[i].type = "contract"
                /\ gContracts[i].inherits # <<>>
                /\ gContracts[j].inherits = <<gContracts[i].name>> )
                 => Occurrences(gEntryPoints, gContracts[i].name) >= 1
        /\ ( /\ Len(gContracts) = 2
             /\ gContracts[1].name = "Token" /\ gContracts[1].type = "contract"
             /\ gContracts[1].inherits = <<>>
             /\ gContracts[2].name = "Sale" /\ gContracts[2].type = "contract"
             /\ gContracts[2].inherits = <<"Token">> )
              => gEntryPoints = <<"Sale">>

\* C7 witness: Scenario A analysed, Token left out and Sale listed.
C7_TokenSaleAnalyzed ==
    /\ gPc = "analyzed"
    /\ Len(gContracts) = 2
    /\ gContracts[1].name = "Token" /\ gContracts[1].type = "contract"
    /\ gContracts[1].inherits = <<>>
    /\ gContracts[2].name = "Sale" /\ gContracts[2].type = "contract"
    /\ gContracts[2].inherits = <<"Token">>
    /\ gEntryPoints = <<"Sale">>

\* C8: every declared contract name is in the graph's node list exactly once.
C8_DeclaredNameIsOneNode ==
    gPc = "analyzed" =>
        \A i \in 1..Len(gContracts) :
            Occurrences(gGraph.nodes, gContracts[i].name) = 1

\* C8 witness: two contracts share a name and both have edges starting at it.
C8_SharedNameReferenced ==
    /\ gPc = "analyzed"
    /\ Len(gContracts) = 2
    /\ gContracts[1].name = gContracts[2].name
    /\ gContracts[1].inherits # <<>>
    /\ gContracts[2].imports # <<>>
    /\ Len(gGraph.edges) >= 2

\* C9: the graph holds no two edges with the same (from, to, kind).
C9_NoDuplicateEdges ==
    gPc = "analyzed" =>
        \A i, j \in 1..Len(gGraph.edges) :
            i # j => gGraph.edges[i] # gGraph.edges[j]

\* C10 as claimed: a plan, transform or explain-validate request that carries
\* only a repoId and arrives while nothing is cached for it ends with an error
\* response and writes no cache.
C10_OnlyRepoIdColdFails ==
    \A r \in Reqs :
        ( /\ req[r].h \in {"plan", "transform", "explain"}
          /\ OnlyRepoId(r)
          /\ req[r].cold
          /\ req[r].pc = "done" )
           => req[r].status \in {400, 500} /\ ~req[r].wrote

\* C10 amended: a plan request that carries only a repoId and arrives while
\* nothing is cached for it answers 400 at once, having called no compute
\* function and written no cache; a transform or explain-validate request in
\* the same situation ingests https://github.com/<repoId> and writes no cache
\* only as long as that ingestion has not resolved, answering 500 if it throws.
C10_PlanFailsFastDownstreamFetches ==
    \A r \in Reqs :
        (OnlyRepoId(r) /\ req[r].cold) =>
            /\ req[r].h = "plan" =>
                  /\ req[r].pc = "done"
                  /\ req[r].status = 400
                  /\ req[r].error = "not cached"
                  /\ ~req[r].wrote
                  /\ \A f \in Computes : req[r].calls[f] = 0
            /\ req[r].h \in Downstream =>
                  /\ req[r].calls["ingestRepository"] = 1
                  /\ req[r].url = <<Scheme, Slash, Slash, Host, Slash>> \o req[r].body.repoId
                  /\ req[r].wrote <=> ( /\ req[r].pc # "ingestRepository"
                                        /\ req[r].failed # "ingestRepository" )
                  /\ req[r].failed = "ingestRepository" => req[r].status = 500

\* C10 witness: a plan request with only a repoId was refused and a transform
\* request with only that repoId then fetched and cached the tree.
C10_RefusedThenFetched ==
    \E r1, r2 \in Reqs :
        /\ req[r1].h = "plan" /\ OnlyRepoId(r1) /\ req[r1].cold
        /\ req[r1].error = "not cached"
        /\ req[r2].h = "transform" /\ OnlyRepoId(r2) /\ req[r2].cold
        /\ req[r2].wrote
        /\ req[r2].status = 200

\* The input errors of a request: a required field is missing, or the
\* repository URL is one parseRepositoryUrl refuses as an "Invalid GitHub
\* repository URL".
InputError(h, b) ==
    IF h \in {"ingest", "analyze"}
    THEN b.repoUrl = Absent \/ parseRepositoryUrl(b.repoUrl) = <<>>
    ELSE /\ b.repoId = Absent
         /\ b.repoUrl = Absent \/ parseRepositoryUrl(b.repoUrl) = <<>>

\* C11: a request with a missing required field or a malformed repository URL
\* is never answered 200, writes no cache, and calls neither the analysis nor
\* the planner; if it reaches ingestRepository, the URL is refused there before
\* the GitHub client is called.
C11_InputErrorRejected ==
    \A r \in Reqs :
        (req[r].pc # "idle" /\ InputError(req[r].h, req[r].body)) =>
            /\ req[r].status # 200
            /\ ~req[r].wrote
            /\ req[r].calls["analyzeSolidityRepository"] = 0
            /\ req[r].calls["planRepositoryMigration"] = 0
            /\ req[r].calls["ingestRepository"] > 0 =>
                   parseRepositoryUrl(req[r].url) = <<>>

\* The contracts of a result that come from the file at path, in order.
ContractsFrom(contracts, path) == SelectSeq(contracts, LAMBDA c : c.filePath = path)

\* The parseErrors entries of a result for the file at path.
ErrorsFor(parseErrors, path) == SelectSeq(parseErrors, LAMBDA e : e.filePath = path)

\* C12: an analysis run always goes on to return a result; in the result a file
\* whose parseFile threw has exactly one parseErrors entry (its path, the
\* error's message) and no contract, every other file has its contracts, in
\* order, and no entry, and stats.parseErrors is the length of parseErrors.
C12_ParseFailureRecordedAndSkipped ==
    /\ aPc = "parsing" => ENABLED AnalyzeNext
    /\ aPc = "done" =>
         /\ \A i \in 1..Len(aFiles) :
              IF aFiles[i].threw
              THEN /\ ErrorsFor(aResult.parseErrors, FilePath(i)) =
                        << [filePath |-> FilePath(i), error |-> aFiles[i].message] >>
                   /\ ContractsFrom(aResult.contracts, FilePath(i)) = <<>>
              ELSE /\ ErrorsFor(aResult.parseErrors, FilePath(i)) = <<>>
                   /\ ContractsFrom(aResult.contracts, FilePath(i)) = aFiles[i].contracts
         /\ aResult.stats.parseErrors = Len(aResult.parseErrors)

\* Two files were analysed: the first threw, the second gave a contract.
C12_OneFileFailedOneParsed ==
    /\ aPc = "done"
    /\ Len(aFiles) = 2
    /\ aFiles[1].threw
    /\ ~aFiles[2].threw
    /\ aResult.contracts # <<>>
    /\ Len(aResult.parseErrors) = 1

\* C13: a failed call of the recommendation generator never makes the plan
\* stage fail: planMigration does not throw to the request handler.
C13_GeneratorFailureStaysInStage ==
    pPc # "threw"

\* Some contiguous part of the text is a JSON array.
HoldsJsonArray(text) ==
    \E i, j \in 1..Len(text) : i < j /\ JSONparse(SubSeq(text, i, j)).ok

SurvivingImports(content) ==
    LET directives == SelectSeq(Split(content),
                                LAMBDA l : l # <<>> /\ l[1] = Import /\ quotedPath(l, 1) # <<>>)
    IN  [i \in 1..Len(directives) |-> quotedPath(directives[i], 1)]

\* The issues the surviving imports of the transformed files call for: one for
\* every import that resolves to no analysed contract's file and carries no
\* external-package marker.
RECURSIVE BrokenImports(_, _)
BrokenImports(transformedFiles, contracts) ==
    IF transformedFiles = <<>> THEN <<>>
    ELSE LET f == Head(transformedFiles)
             broken == SelectSeq(SurvivingImports(f.transformedContent),
                                 LAMBDA q : ~fileExists(contracts, resolveImport(f.filePath, q))
                                            /\ ~IncludesToken(q, At))
         IN  [i \in 1..Len(broken) |->
                [kind |-> "Import not found", in |-> f.filePath, ref |-> broken[i]]]
             \o BrokenImports(Tail(transformedFiles), contracts)

\* C15: in a returned report, every import path that survives in a transformed
\* file and resolves to no analysed contract's file path, without an
\* external-package marker, has exactly one issue naming the file and the
\* path, an import that resolves has none, and importsValid is false exactly
\* when there is such an issue.
C15_BrokenImportsReported ==
    tPc = "returned" =>
        /\ SelectSeq(tReport.crossFileConsistency.issues,
                     LAMBDA q : q.kind = "Import not found")
             = BrokenImports(tTransformedFiles, tAnalysis)
        /\ tReport.crossFileConsistency.importsValid
             = (BrokenImports(tTransformedFiles, tAnalysis) = <<>>)

\* The (contract, parent) pairs of a list of issues.
Flagged(issues) == { <<issues[i].in, issues[i].ref>> : i \in 1..Len(issues) }

\* The (contract, parent) pairs whose parent is no declared contract and does
\* not carry the name of a known external interface (IERC...).
BrokenParents(contracts) ==
    { pair \in UNION { { <<contracts[i].name, contracts[i].inherits[j]>> :
                           j \in 1..Len(contracts[i].inherits) } :
                       i \in 1..Len(contracts) } :
        ~Declares(contracts, pair[2]) /\ ~IncludesToken(pair[2], IERC) }

\* C16: in a returned report the parents reported as broken inheritance are
\* exactly the parents that are no declared contract and do not follow the
\* external-interface naming convention, inheritanceValid is false exactly
\* when there is one, and the validation report's inheritance check flags the
\* same parents.
C16_BrokenParentsReported ==
    tPc = "returned" =>
        /\ Flagged(SelectSeq(tReport.crossFileConsistency.issues,
                             LAMBDA q : q.kind = "Parent contract not found"))
             = BrokenParents(tAnalysis)
        /\ tReport.crossFileConsistency.inheritanceValid = (BrokenParents(tAnalysis) = {})
        /\ Flagged(validateInheritance(tAnalysis)) = BrokenParents(tAnalysis)

\* The file reports of the modified files.
ModifiedReports(report) ==
    SelectSeq(report.fileReports, LAMBDA f : f.appliedChangesCount > 0)

\* C17: the overall confidence of a returned report is the mean of the
\* confidence scores of the modified files, rounded to two decimals, and 0
\* when no file was modified.
C17_OverallConfidenceOverModifiedFiles ==
    tPc = "returned" =>
        tReport.summary.overallConfidence \in
            IF ModifiedReports(tReport) = <<>> THEN {0}
            ELSE MathRound(SumScores(ModifiedReports(tReport)),
                           Len(ModifiedReports(tReport)))

\* C18: every file report with at least one applied change has a diff
\* preview that is not empty.
C18_ModifiedFileHasDiffPreview ==
    \A i \in 1..Len(tReport.fileReports) :
        tReport.fileReports[i].appliedChangesCount > 0 =>
            tReport.fileReports[i].diffPreview # <<>>

\* A list without its repetitions, in order of first occurrence.
RECURSIVE FirstOccurrences(_, _)
FirstOccurrences(list, kept) ==
    IF list = <<>> THEN kept
    ELSE FirstOccurrences(Tail(list),
                          IF Includes(kept, Head(list)) THEN kept
                          ELSE Append(kept, Head(list)))

\* C19: the imports of every extracted contract are the quoted paths of the
\* file's import directives without repetition, in order of first occurrence.
C19_ImportsWithoutDuplicates ==
    xPc = "extracted" =>
        \A i \in 1..Len(xContracts) :
            /\ xContracts[i].imports = FirstOccurrences(xContracts[i].imports, <<>>)
            /\ xContracts[i].imports =
                 FirstOccurrences(extractImports(xRoot.imports), <<>>)

\* The named functions of a declaration whose visibility node, if any, does
\* not say internal or private, with the visibility they resolve to.
PublicFunctionsOf(node) ==
    LET open == SelectSeq(node.functions,
                          LAMBDA f : f.name # NoNode
                                     /\ f.visibility \in {NoNode, "public", "external"})
    IN  [i \in 1..Len(open) |->
           [name |-> open[i].name,
            visibility |-> IF open[i].visibility = "external" THEN "external"
                           ELSE "public"]]

\* C20: every function of an extracted contract is public or external; the
\* functions kept are the named functions that do not resolve to internal or
\* private, and one without a visibility token is kept as public.
C20_OnlyPublicAndExternalFunctions ==
    xPc = "extracted" =>
        \A i \in 1..Len(xContracts) :
            /\ \A j \in 1..Len(xContracts[i].functions) :
                 xContracts[i].functions[j].visibility \in {"public", "external"}
            /\ \E d \in 1..Len(xRoot.declarations) :
                 /\ xRoot.declarations[d].name = xContracts[i].name
                 /\ xContracts[i].functions = PublicFunctionsOf(xRoot.declarations[d])

\* A contract was extracted from a declaration with an internal function and
\* a function without visibility token: only the latter is kept, as public.
C20_InternalDroppedDefaultKept ==
    /\ xPc = "extracted"
    /\ Len(xRoot.declarations) = 1
    /\ xRoot.declarations[1].functions =
         << [name |-> "transfer", visibility |-> "internal"],
            [name |-> "transfer", visibility |-> NoNode] >>
    /\ Len(xContracts) = 1
    /\ xContracts[1].functions = << [name |-> "transfer", visibility |-> "public"] >>

\* C21: the plan a transform or explain-validate run hands to the transformer
\* was computed from the analysis it hands over with it.
C21_PlanDerivedFromHandedAnalysis ==
    \A r \in Reqs :
        (req[r].h \in Downstream /\ Has(req[r].plan)) =>
            req[r].plan.analysis = req[r].analysis.by

\* The weight of a confidence level, in hundredths.
Weight(level) ==
    CASE level = "high" -> 90 [] level = "medium" -> 60 [] level = "low" -> 30

\* The recommendations of the plan for a file.
RecommendationsFor(filePath) == SelectSeq(tPlan, LAMBDA r : r.filePath = filePath)

RECURSIVE SumWeights(_)
SumWeights(recommendations) ==
    IF recommendations = <<>> THEN 0
    ELSE Weight(Head(recommendations).confidenceLevel) + SumWeights(Tail(recommendations))

\* score (in hundredths) is num / den rounded to the nearest hundredth: it
\* differs from the quotient by half a hundredth at most.
RoundedTo(score, num, den) ==
    /\ 2 * (score * den - num) <= den
    /\ 2 * (num - score * den) <= den

C23_ValidationConfidenceBuckets ==
    vPc = "validated" =>
        LET e == Len(vReport.errors)
            w == Len(vReport.warnings)
        IN  /\ (e = 0 /\ w = 0) => vReport.confidenceScore = 95
            /\ (e = 0 /\ w > 0) => vReport.confidenceScore = 80
            /\ (e >= 1 /\ e <= 3) => vReport.confidenceScore = 50
            /\ e > 3 => vReport.confidenceScore = 20
            /\ \A fewer \in 0..(e - 1), any \in 0..(w + 1) :
                 validationConfidence(fewer, any) >= vReport.confidenceScore

\* A validation with more than three errors scored 0.2.
C23_ManyErrors ==
    /\ vPc = "validated"
    /\ Len(vReport.errors) > 3
    /\ Len(vReport.warnings) > 0
    /\ vReport.confidenceScore = 20

\* The report's recommendations with the given text.
Recommending(text) ==
    SelectSeq(tReport.summary.recommendations, LAMBDA r : r.text = text)

\* C24: the recommendations of a returned report are never empty; 'Fix N
\* cross-file consistency issues' is among them exactly when the report has
\* N > 0 consistency issues; 'completed successfully' is among them exactly
\* when files were modified, the overall confidence is at least 0.7 and the
\* report has neither consistency issues nor errors.
C24_RecommendationsFromCounters ==
    tPc = "returned" =>
        LET issues == Len(tReport.crossFileConsistency.issues)
            fix == Recommending("Fix ${n} cross-file consistency issues")
            done == Recommending("Transformations completed successfully - ready for testing")
        IN  /\ tReport.summary.recommendations # <<>>
            /\ Len(fix) = (IF issues > 0 THEN 1 ELSE 0)
            /\ \A i \in 1..Len(fix) : fix[i].n = issues
            /\ done # <<>> <=>
                 /\ tReport.filesModified # 0
                 /\ tReport.summary.overallConfidence >= 70
                 /\ issues = 0
                 /\ Len(tReport.errors) = 0

\* A report with two consistency issues was returned.
C24_TwoIssuesReported ==
    /\ tPc = "returned"
    /\ Len(tReport.crossFileConsistency.issues) = 2
    /\ Recommending("Fix ${n} cross-file consistency issues") # <<>>

\* C25: the inherits of every extracted contract are the names of the
\* declaration's inheritance clause, each once, in order of first occurrence,
\* and empty when the declaration has no inheritance clause.
C25_InheritsWithoutDuplicates ==
    xPc = "extracted" =>
        \A i \in 1..Len(xContracts) :
            /\ \A j, k \in 1..Len(xContracts[i].inherits) :
                 j # k => xContracts[i].inherits[j] # xContracts[i].inherits[k]
            /\ \E d \in 1..Len(xRoot.declarations) :
                 /\ xRoot.declarations[d].name = xContracts[i].name
                 /\ xContracts[i].inherits =
                      FirstOccurrences(xRoot.declarations[d].inheritance, <<>>)
                 /\ xRoot.declarations[d].inheritance = <<>> =>
                      xContracts[i].inherits = <<>>

\* A contract was extracted from a declaration whose clause repeats a parent
\* after another one.
C25_RepeatedParentExtracted ==
    /\ xPc = "extracted"
    /\ Len(xRoot.declarations) = 1
    /\ xRoot.declarations[1].inheritance = <<"Ownable", "Pausable", "Ownable">>
    /\ Len(xContracts) = 1
    /\ xContracts[1].inherits = <<"Ownable", "Pausable">>

RECURSIVE SumApplied(_)
SumApplied(fileReports) ==
    IF fileReports = <<>> THEN 0
    ELSE Head(fileReports).appliedChangesCount + SumApplied(Tail(fileReports))

RECURSIVE SumSkipped(_)
SumSkipped(fileReports) ==
    IF fileReports = <<>> THEN 0
    ELSE Head(fileReports).skippedChangesCount + SumSkipped(Tail(fileReports))

\* C26: in a returned report filesProcessed = filesModified + filesSkipped =
\* the number of file reports + the number of errors, the totals of applied
\* and skipped changes are the sums over the file reports, and filesModified
\* is the number of file reports with an applied change.
C26_ReportCountersAgree ==
    tPc = "returned" =>
        /\ tReport.filesProcessed = tReport.filesModified + tReport.filesSkipped
        /\ tReport.filesProcessed = Len(tReport.fileReports) + Len(tReport.errors)
        /\ tReport.totalAppliedChanges = SumApplied(tReport.fileReports)
        /\ tReport.totalSkippedChanges = SumSkipped(tReport.fileReports)
        /\ tReport.filesModified =
             Len(SelectSeq(tReport.fileReports, LAMBDA f : f.appliedChangesCount > 0))

\* A report was returned for a file that was modified and a file that failed.
C26_OneModifiedOneFailed ==
    /\ tPc = "returned"
    /\ Len(tReport.fileReports) = 1
    /\ tReport.fileReports[1].appliedChangesCount > 0
    /\ Len(tReport.errors) = 1
    /\ tReport.filesProcessed = 2

\* The consistency issues of a kind in the report.
IssuesOfKind(kind) ==
    SelectSeq(tReport.crossFileConsistency.issues, LAMBDA issue : issue.kind = kind)

\* C27: in a returned report the consistency record is checked, importsValid
\* is false exactly when an import issue was recorded, inheritanceValid is
\* false exactly when a parent issue was recorded, and the issue list is empty
\* exactly when both flags are true.
C27_ConsistencyRecordAgrees ==
    tPc = "returned" =>
        LET c == tReport.crossFileConsistency
        IN  /\ c.checked
            /\ c.importsValid <=> IssuesOfKind("Import not found") = <<>>
            /\ c.inheritanceValid <=> IssuesOfKind("Parent contract not found") = <<>>
            /\ c.issues = <<>> <=> (c.importsValid /\ c.inheritanceValid)

\* A report with an import issue and no parent issue was returned.
C27_ImportIssueOnly ==
    /\ tPc = "returned"
    /\ IssuesOfKind("Import not found") # <<>>
    /\ IssuesOfKind("Parent contract not found") = <<>>
    /\ ~tReport.crossFileConsistency.importsValid
    /\ tReport.crossFileConsistency.inheritanceValid

\* C28: every per-file confidence score and the overall confidence of a
\* report lie between 0 and 1.
C28_ConfidenceWithinUnit ==
    /\ \A i \in 1..Len(tTransformedFiles) :
         /\ tTransformedFiles[i].confidenceScore >= 0
         /\ tTransformedFiles[i].confidenceScore <= 100
    /\ \A i \in 1..Len(tReport.fileReports) :
         /\ tReport.fileReports[i].confidenceScore >= 0
         /\ tReport.fileReports[i].confidenceScore <= 100
    /\ tReport.summary.overallConfidence >= 0
    /\ tReport.summary.overallConfidence <= 100

\* C29: the summary of a returned plan agrees with its recommendations: the
\* total is their number, and the high, medium and low counts add up to it.
C29_PlanSummaryAgrees ==
    pPc = "returned" =>
        /\ pPlan.summary.totalRecommendations = Len(pPlan.recommendations)
        /\ pPlan.summary.highConfidenceCount + pPlan.summary.mediumConfidenceCount
             + pPlan.summary.lowConfidenceCount
           = pPlan.summary.totalRecommendations

\* C30: a file whose answer is a skip (as it is for an answer that cannot be
\* parsed) keeps its original content, has no applied change, one skipped
\* change with a reason per recommendation and the confidence 0, and is
\* counted as skipped and not as modified.
C30_SkippedFileUnchangedAndCounted ==
    /\ \A i \in 1..Len(tAnswers) :
         tAnswers[i].action = "skip" =>
            LET file == tTransformedFiles[i]
            IN  /\ file.filePath = tAnswers[i].filePath
                /\ file.transformedContent = file.originalContent
                /\ file.appliedChanges = 0
                /\ ~file.hasChanges
                /\ Len(file.skippedChanges) = Len(RecommendationsFor(file.filePath))
                /\ \A j \in 1..Len(file.skippedChanges) :
                     file.skippedChanges[j].reason # ""
                /\ file.confidenceScore = 0
    /\ tReport.filesModified =
         Len(SelectSeq(tTransformedFiles, LAMBDA f : f.hasChanges))
    /\ tPc # "threw" =>
         tReport.filesSkipped =
           Len(SelectSeq(tTransformedFiles, LAMBDA f : ~f.hasChanges))
           + Len(tReport.errors)

\* The answer for a file with two recommendations was a skip without a
\* reason: two skipped changes, the file counted as skipped.
C30_TwoRecommendationsSkipped ==
    /\ Len(tAnswers) = 1
    /\ tAnswers[1].action = "skip"
    /\ Len(tTransformedFiles[1].skippedChanges) = 2
    /\ tTransformedFiles[1].skippedChanges[1].reason = "Ambiguous or unsafe transformation"
    /\ tReport.filesSkipped = 1
    /\ tReport.filesModified = 0

=============================================================================
